---- MODULE Spec2Model ----
(***************************************************************************)
(* A model of rx-operators.hpp (RxCpp): the auto-detach observer, the      *)
(* observable built by CreateObservable, the subject family, Scan and Take.*)
(*                                                                         *)
(* Each component has its own specification; the variables of the other    *)
(* components stay at their initial value under it.                        *)
(***************************************************************************)
EXTENDS Integers, Sequences, FiniteSets, TLC

\* ------------------------------------------------------------------ bounds
\* Calls made on one CreatedAutoDetachObserver.
MaxCalls == 4
\* Elements passed to OnNext are 1..MaxElement.
MaxElement == 2

\* Observers that subscribe to one subject are 1..MaxObservers (0 is nullptr).
MaxObservers == 2
\* Calls made on one subject, one after another.
MaxOps == 5
\* Calls made on one subject by the two threads together.
MaxConcOps == 3
\* Calls made on one Scan subscription.
MaxScanOps == 3
\* Take's argument n is 0..MaxTake.
MaxTake == 2
\* Calls the upstream of one Take subscription makes.
MaxTakeOps == 4
\* Calls the source and the trigger of one TakeUntil subscription make.
MaxTakeUntilOps == 4
\* Skip's argument n is 0..MaxSkip.
MaxSkip == 2
\* Calls the upstream of one Skip subscription makes.
MaxSkipOps == 4
\* Calls the sources of one Merge observable make, over all subscriptions.
MaxMergeOps == 4
\* The largest element GroupBy's upstream emits, and the calls it makes.
MaxGroupElement == 3
MaxGroupByOps == 4
\* Calls the upstream of Where makes.
MaxWhereOps == 3
\* Calls the upstream of Delay makes.
MaxDelayOps == 3
\* Calls the upstream of Throttle makes.
MaxThrottleOps == 3
\* Calls the upstream of DistinctUntilChanged makes.
MaxDistinctOps == 4
\* Subscriptions made to one RefCount observable.
MaxRefSubs == 3
\* Calls of Connect and of the handles it returns.
MaxConnectOps == 4
\* Calls the source of ForEach makes on the observer.
MaxForEachOps == 3
\* Calls made on one Sink.
MaxSinkOps == 4
\* Calls made on one observer built by CreateObserver.
MaxObserverOps == 4

Elements == 1..MaxElement
\* Exception payloads are drawn from the same small set; 0 is "no error".
Errors == Elements
Obs == 1..MaxObservers
\* The callers of the concurrent specifications.
Threads == {"t1", "t2"}

VARIABLES
    \* ---- CreatedAutoDetachObserver (lines 16-65)
    observer,      \* the field `observer`: "inner" or "null"
    disposable,    \* the field `disposable`: TRUE once the SerialDisposable is disposed
    delivered,     \* the events the inner observer has received, in order
    pc,            \* per thread: where it is inside the wrapper's method
    op,            \* per thread: the method it called last ("none" before any)
    arg,           \* per thread: the element of that call (0 for a terminal call)
    final,         \* per thread: the local `final` of OnCompleted/OnError
    loaded,        \* per thread: the pointer `if (observer)` read
    hadObserver,   \* per thread: whether `if (observer)` was taken
    threw,         \* per thread: whether the call left by an exception
    dispAtCall,    \* per thread: `disposable` when the call started
    lateStart,     \* per thread: a terminal event had been delivered when the call started
    calls,         \* number of calls started
    crashed        \* a thread dereferenced a null shared_ptr

VARIABLES
    \* ---- CreatedObservable::Subscribe (lines 78-114)
    subPc,         \* "start", "queued", "body", "catch", "done"
    subPath,       \* "none", "direct" or "scheduled"
    subRet,        \* what Subscribe returned: "none", "disposable", "Empty"
    serialSet,     \* disposable.Set(subscribe(...)) has run
    fnThrew,       \* the user subscribe function threw
    catchOnError,  \* calls of autoDetachObserver->OnError made by a catch block
    escaped        \* the exception that left Subscribe or the scheduled
                   \* lambda: "none", "subscribe" (the user function's) or
                   \* "observer" (one thrown by the inner observer's OnError)

VARIABLES
    \* ---- ObservableSubject/ObserverSubject (lines 329-447),
    \*      BehaviorSubject (487-634), AsyncSubject (642-784)
    kind,          \* "Subject", "Grouped", "Behavior" or "Async"
    state,         \* SubjectState: "Forwarding", "Completed", "Error"
    error,         \* the stored exception (0: none)
    value,         \* Behavior: <<v>>; Async: util::maybe<T>, <<>> or <<v>>
    slotCount,     \* Behavior/Async: the free-slot counter
    observers,     \* the observer table; 0 is a nullptr slot
    lock,          \* the thread holding the mutex, or "none"
    th,            \* per thread: the call in progress and its locals
    received,      \* per observer: the events it was given, in order
    ret,           \* per observer: what Subscribe returned: "none", "d", "Empty"
    disposedD,     \* per observer: the Disposable d has run its action
    budget,        \* calls that may still be started
    \* history of the calls, kept for the properties
    subscribed,    \* observers Subscribe was called with
    attached,      \* observers subscribed while Forwarding, not disposed, not terminated
    expected,      \* per observer: the values published while attached, then the terminal
    stateAtSub,    \* per observer: the subject's state when its Subscribe took the lock
    errorAtSub,    \* per observer: the stored error at that moment
    cbUnderLock,   \* some callback was invoked by a thread holding the lock
    firstTerminal, \* <<>>, or <<ev>>: the first terminal event the subject was given
    latest,        \* the last value published before any terminal event (<<>>: none)
    termAtSub,     \* per observer: firstTerminal when its Subscribe took the lock
    latestAtSub,   \* per observer: latest at that moment
    \* ---- Scan (lines 1324-1437) and its Sink (lines 186-264)
    scSink,        \* the Scan sink exists (Producer::Subscribe has run)
    scSeed,        \* ScanObservable::seed, a maybe: <<>> or <<s>>
    accumulation,  \* the sink's accumulation, a maybe: <<>> or <<a>>
    scObserver,    \* Sink::observer: "downstream", or "noop" (the empty Observer)
    scCancel,      \* Sink::cancel holds a disposable
    scCancelDisposed, \* the upstream subscription (State::subscription) is disposed
    scTh,          \* per thread: its position inside the Scan sink
    scOut,         \* the events the downstream observer was given, in order
    scInside,      \* the threads inside a downstream OnNext callback
    scOverlap,     \* a downstream callback started while another was running
    scInput,       \* the calls made on the Scan sink, in call order
    scBudget,      \* calls on the Scan sink still to be made
    \* ---- Take (lines 1439-1488)
    tkN,           \* Take's argument n
    tkIn,          \* get<0>(*remaining): values still to be accepted
    tkOut,         \* get<1>(*remaining): accepted values still to be handed on
    tkTh,          \* per thread: its position inside Take's lambdas
    tkCdDisposed,  \* cd, the upstream subscription, is disposed
    tkInput,       \* the calls the upstream made, in call order
    tkBudget,      \* upstream calls still to be made
    \* ---- TakeUntil (lines 1489-1571)
    tuTerminus,    \* state->terminusState: "Live" or "Terminated"
    tuTake,        \* state->takeState: "Taking" or "Completed"
    tuTh,          \* the source's caller: its position inside the source lambdas
    tuCd,          \* cd is disposed
    tuSrcDone,     \* the source has made its terminal call
    tuTrigDone,    \* the trigger has made its terminal call
    tuTrigError,   \* the trigger gave an error while the operator was live
    tuInput,       \* the calls of source and trigger, in order
    tuBudget,      \* calls of source and trigger still to be made
    \* ---- Skip (lines 1573-1623)
    skN,           \* Skip's argument n
    skRemaining,   \* get<0>(*remaining): values still to be skipped
    skState,       \* get<1>(*remaining): "Skipping" or "Forwarding"
    skTh,          \* the upstream's caller: its position inside Skip's lambdas
    skCd,          \* cd is disposed
    skSrcDone,     \* the upstream has made its terminal call
    skInput,       \* the calls of the upstream, in order
    skBudget,      \* upstream calls still to be made
    \* ---- Merge (lines 962-1037)
    mgPending,     \* state->pendingComplete, one counter per Merge observable
    mgSub,         \* per subscription: "none" or "active"
    mgObserver,    \* per subscription: its auto-detach observer's field `observer`
    mgDelivered,   \* per subscription: the events its downstream observer got
    mgCd,          \* per subscription: cd is disposed
    mgSrc,         \* per subscription and source: "live", "completed" or "error"
    mgSent,        \* per subscription and source: the values the source emitted
    mgBudget,      \* source calls still to be made
    \* ---- GroupBy (lines 1108-1196)
    gbGroups,      \* the keys of state->groups
    gbPushed,      \* per key: the calls made on that key's GroupedSubject
    gbTh,          \* where the upstream's call is: pc, op, arg
    gbSrcDone,     \* the upstream made its terminal call
    gbThrown,      \* history: a selector threw
    gbEarly,       \* history: a value was pushed into a group not yet emitted
    gbInput,       \* history: the upstream's calls
    gbBudget,      \* upstream calls still to be made
    \* ---- Where (lines 1069-1106)
    whTh,          \* where the upstream's call is: pc, op, arg
    whSrcDone,     \* the upstream made its terminal call
    whThrown,      \* history: the predicate threw
    whLateEval,    \* history: the predicate was evaluated after it had thrown
    whInput,       \* history: the upstream's calls
    whBudget,      \* upstream calls still to be made
    \* ---- Delay (lines 1728-1792)
    dlQueue,       \* the callbacks given to scheduler->Schedule and not yet run
    dlTh,          \* where the upstream's call is: pc, op, arg
    dlSrcDone,     \* the upstream made its terminal call
    dlErrOpen,     \* history: on error found cancel unset and the observer set
    dlEarly,       \* history: the callbacks run while no error was delivered
    dlLate,        \* history: how many callbacks ran after the error was delivered
    dlInput,       \* history: the upstream's calls
    dlBudget,      \* upstream calls still to be made
    \* ---- Throttle (lines 1794-1876)
    trValue,       \* state->value (0: default constructed)
    trHasValue,    \* state->hasValue
    trId,          \* state->id
    trLock,        \* state->lock: "free" or the thread holding it
    trTimer,       \* the version of the callback the scheduler holds (0: none)
    trTh,          \* where the upstream's call is: pc, op, arg
    trCb,          \* the running callback: pc, its captured `current`
    trCd,          \* cd is disposed
    trSrcDone,     \* the upstream made its terminal call
    trPending,     \* history: the last value stored and not emitted since (0: none)
    trOwed,        \* history: trPending when the upstream completed
    trFires,       \* history: per callback run <<current, id then, called OnNext, upstream ended>>
    trEmits,       \* history: how many values the callbacks passed on
    trInput,       \* history: the upstream's calls
    trBudget,      \* upstream calls still to be made
    \* ---- DistinctUntilChanged (lines 1925-1965)
    dcLast,        \* state->last (0: default constructed)
    dcHasValue,    \* state->hasValue
    dcTh,          \* where the upstream's call is: pc, op, arg
    dcSrcDone,     \* the upstream made its terminal call
    dcThrew,       \* history: the downstream observer threw from OnNext
    dcInput,       \* history: the upstream's calls
    dcBudget,      \* upstream calls still to be made
    \* ---- RefCountObservable (lines 1229-1305) under Producer::Subscribe (285-314)
    rc,            \* refcount, the connection, and per subscription its sink,
                   \* its Producer state and what became of it
    \* ---- ConnectableSubject (lines 826-864)
    cnSubscription, \* `subscription`: the source subscription it holds (0: none)
    cnLock,        \* `lock`: "free" or the thread holding it
    cnTh,          \* per thread: pc, op, the handle it disposes
    cnLive,        \* history: the subject's subscriptions to the source not yet disposed
    cnMade,        \* history: how many subscriptions to the source were made
    cnHandles,     \* per handle Connect returned: it was disposed
    cnLog,         \* history: per call <<op, subscription before, subscription after>>
    cnBudget,      \* calls still to be made
    \* ---- ForEach (lines 907-941)
    fePc,          \* the caller: "start", "subscribing", "waiting", "sleeping",
                   \* "check", "returned" or "threw"
    feMode,        \* the source emits inside Subscribe ("sync") or from a thread
                   \* of its own ("async")
    feLock,        \* `lock`: "free" or "handler"
    feDone,        \* `done`
    feError,       \* `error` (0: null)
    feH,           \* the terminal handler in progress: pc, op, arg
    feCleared,     \* the CreatedObserver's handlers are cleared
    feValues,      \* history: the values onNext was called with
    feSent,        \* history: the terminal event the source delivered (<<>>: none)
    feThrown,      \* history: the exception ForEach left with (0: none)
    feBudget,      \* source calls still to be made
    \* ---- detail::Sink (lines 188-264)
    snObserver,    \* Sink::observer: "downstream", or "noop" (the empty Observer)
    snCancel,      \* Sink::cancel holds the upstream-cancel disposable
    snCancelDisposes, \* history: the calls of cancel->Dispose() made so far
    snDisposeRan,  \* history: Sink::Dispose has run
    snOut,         \* history: the events that reached the downstream observer
    snLate,        \* history: those that reached it after Sink::Dispose ran
    snInput,       \* history: the calls made on the sink
    snBudget,      \* calls still to be made
    \* ---- CreatedObserver (lines 122-183)
    crOnNext,      \* CreatedObserver::onNext holds a handler
    crOnCompleted, \* CreatedObserver::onCompleted holds a handler
    crOnError,     \* CreatedObserver::onError holds a handler
    crCalls,       \* history: the handler invocations, in order
    crTerminated,  \* history: OnCompleted or OnError has been called
    crLate,        \* history: the handler invocations made after such a call
    crInput,       \* history: the calls made on the observer
    crBudget       \* calls still to be made

sjHist == <<firstTerminal, latest, termAtSub, latestAtSub>>

sjVars == <<kind, state, error, value, slotCount, observers, lock, th, received,
            ret, disposedD, budget, subscribed, attached, expected, stateAtSub,
            errorAtSub, cbUnderLock, sjHist>>

adVars == <<observer, disposable, delivered, pc, op, arg, final, loaded,
            hadObserver, threw, dispAtCall, lateStart, calls, crashed>>

coVars == <<subPc, subPath, subRet, serialSet, fnThrew, catchOnError, escaped>>

scVars == <<scSink, scSeed, accumulation, scObserver, scCancel, scCancelDisposed,
            scTh, scOut, scInside, scOverlap, scInput, scBudget>>

tkVars == <<tkN, tkIn, tkOut, tkTh, tkCdDisposed, tkInput, tkBudget>>

tuVars == <<tuTerminus, tuTake, tuTh, tuCd, tuSrcDone, tuTrigDone, tuTrigError,
            tuInput, tuBudget>>

skVars == <<skN, skRemaining, skState, skTh, skCd, skSrcDone, skInput, skBudget>>

mgVars == <<mgPending, mgSub, mgObserver, mgDelivered, mgCd, mgSrc, mgSent, mgBudget>>

gbVars == <<gbGroups, gbPushed, gbTh, gbSrcDone, gbThrown, gbEarly, gbInput, gbBudget>>

whVars == <<whTh, whSrcDone, whThrown, whLateEval, whInput, whBudget>>

dlVars == <<dlQueue, dlTh, dlSrcDone, dlErrOpen, dlEarly, dlLate, dlInput, dlBudget>>

trVars == <<trValue, trHasValue, trId, trLock, trTimer, trTh, trCb, trCd, trSrcDone,
            trPending, trOwed, trFires, trEmits, trInput, trBudget>>

dcVars == <<dcLast, dcHasValue, dcTh, dcSrcDone, dcThrew, dcInput, dcBudget>>

rcVars == <<rc>>

cnVars == <<cnSubscription, cnLock, cnTh, cnLive, cnMade, cnHandles, cnLog, cnBudget>>

feVars == <<fePc, feMode, feLock, feDone, feError, feH, feCleared, feValues, feSent,
            feThrown, feBudget>>

snVars == <<snObserver, snCancel, snCancelDisposes, snDisposeRan, snOut, snLate,
            snInput, snBudget>>

crVars == <<crOnNext, crOnCompleted, crOnError, crCalls, crTerminated, crLate,
            crInput, crBudget>>

vars == <<adVars, coVars, sjVars, scVars, tkVars, tuVars, skVars,
        mgVars, gbVars, whVars, dlVars, trVars, dcVars, rcVars,
        cnVars, feVars, snVars, crVars>>

\* What the steps of one component leave alone: every other component.
restAD == <<coVars, sjVars, scVars, tkVars, tuVars, skVars, mgVars,
        gbVars, whVars, dlVars, trVars, dcVars, rcVars, cnVars,
        feVars, snVars, crVars>>
restCO == <<sjVars, scVars, tkVars, tuVars, skVars, mgVars, gbVars,
        whVars, dlVars, trVars, dcVars, rcVars, cnVars, feVars,
        snVars, crVars>>
restSJ == <<adVars, coVars, scVars, tkVars, tuVars, skVars, mgVars,
        gbVars, whVars, dlVars, trVars, dcVars, rcVars, cnVars,
        feVars, snVars, crVars>>
restSC == <<adVars, coVars, sjVars, tkVars, tuVars, skVars, mgVars,
        gbVars, whVars, dlVars, trVars, dcVars, rcVars, cnVars,
        feVars, snVars, crVars>>
\* Take calls the auto-detach observer it was given, so its steps share adVars.
restTK == <<coVars, sjVars, scVars, tuVars, skVars, mgVars, gbVars,
        whVars, dlVars, trVars, dcVars, rcVars, cnVars, feVars,
        snVars, crVars>>
restTU == <<coVars, sjVars, scVars, tkVars, skVars, mgVars, gbVars,
        whVars, dlVars, trVars, dcVars, rcVars, cnVars, feVars,
        snVars, crVars>>
restSK == <<coVars, sjVars, scVars, tkVars, tuVars, mgVars, gbVars,
        whVars, dlVars, trVars, dcVars, rcVars, cnVars, feVars,
        snVars, crVars>>
restMG == <<adVars, coVars, sjVars, scVars, tkVars, tuVars, skVars,
        gbVars, whVars, dlVars, trVars, dcVars, rcVars, cnVars,
        feVars, snVars, crVars>>
restGB == <<coVars, sjVars, scVars, tkVars, tuVars, skVars, mgVars,
        whVars, dlVars, trVars, dcVars, rcVars, cnVars, feVars,
        snVars, crVars>>
restWH == <<coVars, sjVars, scVars, tkVars, tuVars, skVars, mgVars,
        gbVars, dlVars, trVars, dcVars, rcVars, cnVars, feVars,
        snVars, crVars>>
restDL == <<coVars, sjVars, scVars, tkVars, tuVars, skVars, mgVars,
        gbVars, whVars, trVars, dcVars, rcVars, cnVars, feVars,
        snVars, crVars>>
restTR == <<coVars, sjVars, scVars, tkVars, tuVars, skVars, mgVars,
        gbVars, whVars, dlVars, dcVars, rcVars, cnVars, feVars,
        snVars, crVars>>
restDC == <<coVars, sjVars, scVars, tkVars, tuVars, skVars, mgVars,
        gbVars, whVars, dlVars, trVars, rcVars, cnVars, feVars,
        snVars, crVars>>
restRC == <<adVars, coVars, sjVars, scVars, tkVars, tuVars, skVars,
        mgVars, gbVars, whVars, dlVars, trVars, dcVars, cnVars,
        feVars, snVars, crVars>>
restCN == <<adVars, coVars, sjVars, scVars, tkVars, tuVars, skVars,
        mgVars, gbVars, whVars, dlVars, trVars, dcVars, rcVars,
        feVars, snVars, crVars>>
restFE == <<adVars, coVars, sjVars, scVars, tkVars, tuVars, skVars,
        mgVars, gbVars, whVars, dlVars, trVars, dcVars, rcVars,
        cnVars, snVars, crVars>>
restSN == <<adVars, coVars, sjVars, scVars, tkVars, tuVars, skVars,
        mgVars, gbVars, whVars, dlVars, trVars, dcVars, rcVars,
        cnVars, feVars, crVars>>
restCR == <<adVars, coVars, sjVars, scVars, tkVars, tuVars, skVars,
        mgVars, gbVars, whVars, dlVars, trVars, dcVars, rcVars,
        cnVars, feVars, snVars>>

\* ------------------------------------------------------------------
\* CreatedAutoDetachObserver
\* ------------------------------------------------------------------

Terminal == {"OnCompleted", "OnError"}

\* The event a method hands to the inner observer.
EventOf(o, e) ==
    CASE o = "OnNext"      -> <<"next", e>>
      [] o = "OnCompleted" -> <<"completed", 0>>
      [] o = "OnError"     -> <<"error", 0>>

\* CreateAutoDetachObserver: a wrapper holding the inner observer and a fresh
\* SerialDisposable.
ADInit ==
    /\ observer = "inner"
    /\ disposable = FALSE
    /\ delivered = <<>>
    /\ pc = [t \in Threads |-> "idle"]
    /\ op = [t \in Threads |-> "none"]
    /\ arg = [t \in Threads |-> 0]
    /\ final = [t \in Threads |-> "null"]
    /\ loaded = [t \in Threads |-> "null"]
    /\ hadObserver = [t \in Threads |-> FALSE]
    /\ threw = [t \in Threads |-> FALSE]
    /\ dispAtCall = [t \in Threads |-> FALSE]
    /\ lateStart = [t \in Threads |-> FALSE]
    /\ calls = 0
    /\ crashed = FALSE

\* Entry of a method up to and including `if (observer)`.
ADEnter(t, o, e) ==
    /\ ~crashed
    /\ pc[t] = "idle"
    /\ calls < MaxCalls
    /\ calls' = calls + 1
    /\ op' = [op EXCEPT ![t] = o]
    /\ arg' = [arg EXCEPT ![t] = e]
    /\ loaded' = [loaded EXCEPT ![t] = observer]
    /\ hadObserver' = [hadObserver EXCEPT ![t] = (observer # "null")]
    /\ threw' = [threw EXCEPT ![t] = FALSE]
    /\ dispAtCall' = [dispAtCall EXCEPT ![t] = disposable]
    /\ lateStart' = [lateStart EXCEPT ![t] =
                        \E i \in 1..Len(delivered) : delivered[i][1] # "next"]
    /\ final' = [final EXCEPT ![t] = "null"]
    /\ pc' = [pc EXCEPT ![t] =
                IF observer = "null" THEN "idle"
                ELSE IF o = "OnNext" THEN "call" ELSE "swap"]
    /\ UNCHANGED <<observer, disposable, delivered, crashed>>

ADOnNext(t) == \E e \in Elements : ADEnter(t, "OnNext", e)

ADOnCompleted(t) == ADEnter(t, "OnCompleted", 0)

ADOnError(t) == ADEnter(t, "OnError", 0)

\* An OnNext without the unwind guard: a throwing callback disposes nothing.
ADNextCallNoGuard(t) ==
    /\ ~crashed
    /\ pc[t] = "call"
    /\ \E p \in {observer, loaded[t]} :
          IF p = "null"
          THEN /\ crashed' = TRUE
               /\ UNCHANGED <<delivered, threw, pc>>
          ELSE \E thrown \in BOOLEAN :
               /\ delivered' = Append(delivered, EventOf("OnNext", arg[t]))
               /\ threw' = [threw EXCEPT ![t] = thrown]
               /\ pc' = [pc EXCEPT ![t] = "idle"]
               /\ UNCHANGED crashed
    /\ UNCHANGED <<observer, disposable, op, arg, final, loaded, hadObserver,
                   dispAtCall, lateStart, calls>>

\* RXCPP_UNWIND(disposer, [&]{ disposable.Dispose(); });
\* observer->OnNext(element); disposer.dismiss();
\* The guard runs disposable.Dispose() when the scope is left by an exception
\* and does nothing once dismissed.
\* The pointer used is the one in the field now or the one `if (observer)`
\* read (the two reads are unsynchronised, the build may merge them).
\* The inner callback returns or throws.
ADNextCall(t) ==
    /\ ~crashed
    /\ pc[t] = "call"
    /\ \E p \in {observer, loaded[t]} :
          IF p = "null"
          THEN /\ crashed' = TRUE
               /\ UNCHANGED <<delivered, disposable, threw, pc>>
          ELSE \E thrown \in BOOLEAN :
               /\ delivered' = Append(delivered, EventOf("OnNext", arg[t]))
               /\ disposable' = (disposable \/ thrown)
               /\ threw' = [threw EXCEPT ![t] = thrown]
               /\ pc' = [pc EXCEPT ![t] = "idle"]
               /\ UNCHANGED crashed
    /\ UNCHANGED <<observer, op, arg, final, loaded, hadObserver, dispAtCall, lateStart, calls>>

\* swap(final, observer), first half: final takes the pointer held by observer.
ADSwapRead(t) ==
    /\ ~crashed
    /\ pc[t] = "swap"
    /\ final' = [final EXCEPT ![t] = observer]
    /\ pc' = [pc EXCEPT ![t] = "clear"]
    /\ UNCHANGED <<observer, disposable, delivered, op, arg, loaded,
                   hadObserver, threw, dispAtCall, lateStart, calls, crashed>>

\* A swap that leaves the field as it was.
ADSwapWriteKeeps(t) ==
    /\ ~crashed
    /\ pc[t] = "clear"
    /\ pc' = [pc EXCEPT ![t] = "final"]
    /\ UNCHANGED <<observer, disposable, delivered, op, arg, final, loaded,
                   hadObserver, threw, dispAtCall, lateStart, calls, crashed>>

\* swap(final, observer), second half: observer takes the (null) old final.
ADSwapWrite(t) ==
    /\ ~crashed
    /\ pc[t] = "clear"
    /\ observer' = "null"
    /\ pc' = [pc EXCEPT ![t] = "final"]
    /\ UNCHANGED <<disposable, delivered, op, arg, final, loaded,
                   hadObserver, threw, dispAtCall, lateStart, calls, crashed>>

\* final->OnCompleted() / final->OnError(error); disposer.dismiss();
\* under the same guard as OnNext.
ADFinalCall(t) ==
    /\ ~crashed
    /\ pc[t] = "final"
    /\ IF final[t] = "null"
       THEN /\ crashed' = TRUE
            /\ UNCHANGED <<delivered, disposable, threw, pc>>
       ELSE \E thrown \in BOOLEAN :
            /\ delivered' = Append(delivered, EventOf(op[t], 0))
            /\ disposable' = (disposable \/ thrown)
            /\ threw' = [threw EXCEPT ![t] = thrown]
            /\ pc' = [pc EXCEPT ![t] = "idle"]
            /\ UNCHANGED crashed
    /\ UNCHANGED <<observer, op, arg, final, loaded, hadObserver, dispAtCall, lateStart, calls>>

\* ------------------------------------------------------------------
\* CreatedObservable::Subscribe
\* ------------------------------------------------------------------

\* Before Subscribe is called.
COInit ==
    /\ subPc = "start"
    /\ subPath = "none"
    /\ subRet = "none"
    /\ serialSet = FALSE
    /\ fnThrew = FALSE
    /\ catchOnError = 0
    /\ escaped = "none"

\* auto autoDetachObserver = CreateAutoDetachObserver(std::move(observer));
\* if (CurrentThreadScheduler::IsScheduleRequired()) { scheduler->Schedule(...);
\*     return autoDetachObserver->disposable; }
\* otherwise the try block of the direct path is entered.
COSubscribe ==
    /\ subPc = "start"
    /\ \E required \in BOOLEAN :
          IF required
          THEN /\ subPc' = "queued"
               /\ subPath' = "scheduled"
               /\ subRet' = "disposable"
          ELSE /\ subPc' = "body"
               /\ subPath' = "direct"
               /\ subRet' = subRet
    /\ UNCHANGED <<serialSet, fnThrew, catchOnError, escaped>>
    /\ UNCHANGED <<adVars, restCO>>

\* The current-thread scheduler runs the scheduled lambda: its try block is entered.
CORunScheduled ==
    /\ subPc = "queued"
    /\ subPc' = "body"
    /\ UNCHANGED <<subPath, subRet, serialSet, fnThrew, catchOnError, escaped>>
    /\ UNCHANGED <<adVars, restCO>>

\* The user subscribe function, or the catch block's OnError, is inside a
\* method of the auto-detach observer.
COObserverStep ==
    /\ subPc \in {"body", "catch"}
    /\ \/ ADNextCall("t1")
       \/ ADSwapRead("t1")
       \/ ADSwapWrite("t1")
       \/ ADFinalCall("t1")
    /\ UNCHANGED restAD

\* The user subscribe function calls a method of the auto-detach observer.
COFnEmits ==
    /\ subPc = "body"
    /\ \/ ADOnNext("t1")
       \/ ADOnCompleted("t1")
       \/ ADOnError("t1")
    /\ UNCHANGED restAD

\* subscribe(autoDetachObserver) returns; disposable.Set(...) takes its result.
\* The direct path returns autoDetachObserver->disposable, the lambda
\* returns Disposable::Empty() to the scheduler.
COFnReturns ==
    /\ subPc = "body"
    /\ pc["t1"] = "idle"
    /\ serialSet' = TRUE
    /\ subPc' = "done"
    /\ subRet' = "disposable"
    /\ UNCHANGED <<subPath, fnThrew, catchOnError, escaped>>
    /\ UNCHANGED <<adVars, restCO>>

\* A subscribe function whose exception no handler catches.
COFnThrowsUncaught ==
    /\ subPc = "body"
    /\ pc["t1"] = "idle"
    /\ fnThrew' = TRUE
    /\ escaped' = "subscribe"
    /\ subPc' = "done"
    /\ UNCHANGED <<subPath, subRet, serialSet, catchOnError>>
    /\ UNCHANGED <<adVars, restCO>>

\* subscribe(autoDetachObserver) throws:
\* catch (...) { autoDetachObserver->OnError(std::current_exception()); }
COFnThrows ==
    /\ subPc = "body"
    /\ pc["t1"] = "idle"
    /\ fnThrew' = TRUE
    /\ catchOnError' = catchOnError + 1
    /\ subPc' = "catch"
    /\ ADOnError("t1")
    /\ UNCHANGED <<subPath, subRet, serialSet, escaped>>
    /\ UNCHANGED restCO

\* The catch block's OnError has returned or thrown; the direct path goes on to
\* return Disposable::Empty().
COCatchDone ==
    /\ subPc = "catch"
    /\ pc["t1"] = "idle"
    /\ subPc' = "done"
    /\ escaped' = IF threw["t1"] THEN "observer" ELSE escaped
    /\ subRet' = IF subPath = "direct" /\ ~threw["t1"] THEN "Empty" ELSE subRet
    /\ UNCHANGED <<subPath, serialSet, fnThrew, catchOnError>>
    /\ UNCHANGED <<adVars, restCO>>

CONext ==
    \/ COSubscribe
    \/ CORunScheduled
    \/ COFnEmits
    \/ COObserverStep
    \/ COFnReturns
    \/ COFnThrows
    \/ COCatchDone

\* ------------------------------------------------------------------
\* The subject family
\* ------------------------------------------------------------------

Kinds == {"Subject", "Grouped", "Behavior", "Async"}

\* Subject and GroupedSubject share ObservableSubject and ObserverSubject.
PublishKinds == {"Subject", "Grouped"}

\* A thread outside every call.
ThreadIdle ==
    [pc |-> "idle", op |-> "none", arg |-> 0, obs |-> 0, local |-> <<>>,
     idx |-> 0, localState |-> "Invalid", localValue |-> <<>>, localError |-> 0,
     snap |-> {}, visited |-> <<>>, dead |-> {}]

\* ObservableSubject(), BehaviorSubject(T t), AsyncSubject(): the state after
\* construction; n is the number of calls the run may make.
SJInitial(k, n) ==
    /\ kind = k
    /\ state = "Forwarding"
    /\ error = 0
    /\ value = IF k = "Behavior" THEN <<0>> ELSE <<>>
    /\ slotCount = 0
    /\ observers = <<>>
    /\ lock = "none"
    /\ th = [t \in Threads |-> ThreadIdle]
    /\ received = [o \in Obs |-> <<>>]
    /\ ret = [o \in Obs |-> "none"]
    /\ disposedD = [o \in Obs |-> FALSE]
    /\ budget = n
    /\ subscribed = {}
    /\ attached = {}
    /\ expected = [o \in Obs |-> <<>>]
    /\ stateAtSub = [o \in Obs |-> "Invalid"]
    /\ errorAtSub = [o \in Obs |-> 0]
    /\ cbUnderLock = FALSE
    /\ firstTerminal = <<>>
    /\ latest = (IF k = "Behavior" THEN <<0>> ELSE <<>>)
    /\ termAtSub = [o \in Obs |-> <<>>]
    /\ latestAtSub = [o \in Obs |-> <<>>]

\* The non-null entries of a table.
Members(tbl) == {tbl[i] : i \in 1..Len(tbl)} \ {0}

\* The index of the first entry of tbl equal to x, 0 when there is none
\* (std::find, and the `if (!o)` scan of Subscribe with x = 0).
Find(tbl, x) ==
    IF \E i \in 1..Len(tbl) : tbl[i] = x
    THEN CHOOSE i \in 1..Len(tbl) : tbl[i] = x /\ \A j \in 1..(i - 1) : tbl[j] # x
    ELSE 0

\* ObservableSubject::Subscribe, state Forwarding: the first nullptr slot is
\* reused, else the observer is pushed back.
PublishInsert(tbl, o) ==
    IF Find(tbl, 0) # 0 THEN [tbl EXCEPT ![Find(tbl, 0)] = o] ELSE Append(tbl, o)

\* A mutation of the counted insert: the observer is always pushed back.
CountedInsertAlwaysPush(tbl, n, o) == <<Append(tbl, o), n>>

\* BehaviorSubject/AsyncSubject::Subscribe, state Forwarding: with
\* slotCount > 0 the first nullptr slot (if any) is reused and slotCount
\* decremented, else the observer is pushed back. The result is the new
\* table and the new slotCount.
CountedInsert(tbl, n, o) ==
    IF n > 0
    THEN IF Find(tbl, 0) # 0
         THEN <<[tbl EXCEPT ![Find(tbl, 0)] = o], n - 1>>
         ELSE <<tbl, n>>
    ELSE <<Append(tbl, o), n>>

\* A removal that leaves the table as it is.
RemoveObserverKeeps(k, tbl, n, toRemove) == <<tbl, n>>

\* RemoveObserver: the first slot holding toRemove becomes nullptr; the
\* counted subjects also increment slotCount. The result is the new table
\* and the new slotCount.
RemoveObserver(k, tbl, n, toRemove) ==
    IF Find(tbl, toRemove) # 0
    THEN <<[tbl EXCEPT ![Find(tbl, toRemove)] = 0],
           IF k \in PublishKinds THEN n ELSE n + 1>>
    ELSE <<tbl, n>>

\* The events of one callback sequence appended to an observer's record.
Deliver(rcv, o, evs) == [rcv EXCEPT ![o] = @ \o evs]

\* A terminal event that is completed whatever the state.
TerminalEventCompleted(st, err) == <<"completed", 0>>

\* The terminal event of a state.
TerminalEvent(st, err) ==
    IF st = "Completed" THEN <<"completed", 0>> ELSE <<"error", err>>

\* What wptr.lock() may give the Disposable d: the observer, or nullptr when
\* neither the table nor a dispatch in progress still owns it.
WeakLock(o) ==
    {o} \cup
    (IF o \notin Members(observers)
        /\ \A t \in Threads : th[t].pc # "dispatch" \/ o \notin Members(th[t].local)
     THEN {0} ELSE {})

\* Subscribe, up to taking the lock (the Disposable d is built before).
SJSubscribe(t) ==
    \E o \in Obs \ subscribed :
    /\ th[t].pc = "idle"
    /\ lock = "none"
    /\ budget > 0
    /\ budget' = budget - 1
    /\ lock' = t
    /\ th' = [th EXCEPT ![t] =
                [ThreadIdle EXCEPT !.pc = "subscribe", !.op = "Subscribe", !.obs = o]]
    /\ subscribed' = subscribed \cup {o}
    /\ stateAtSub' = [stateAtSub EXCEPT ![o] = state]
    /\ errorAtSub' = [errorAtSub EXCEPT ![o] = error]
    /\ termAtSub' = [termAtSub EXCEPT ![o] = firstTerminal]
    /\ latestAtSub' = [latestAtSub EXCEPT ![o] = latest]
    /\ UNCHANGED <<kind, state, error, value, slotCount, observers, received, ret,
                   disposedD, attached, expected, cbUnderLock, firstTerminal, latest>>

\* ObservableSubject::Subscribe, the block under the lock (lines 374-393).
\* In state Completed or Error the observer is called here, before the
\* guard is released by the return.
PublishSubscribeLocked(t) ==
    LET o == th[t].obs IN
    /\ th[t].pc = "subscribe"
    /\ kind \in PublishKinds
    /\ IF state \in {"Completed", "Error"}
       THEN /\ received' = Deliver(received, o, <<TerminalEvent(state, error)>>)
            /\ cbUnderLock' = (cbUnderLock \/ lock = t)
            /\ th' = [th EXCEPT ![t].pc = "returnEmpty"]
            /\ UNCHANGED <<observers, lock, ret, attached>>
       ELSE /\ observers' = PublishInsert(observers, o)
            /\ lock' = "none"
            /\ ret' = [ret EXCEPT ![o] = "d"]
            /\ attached' = attached \cup {o}
            /\ th' = [th EXCEPT ![t].pc = "idle"]
            /\ UNCHANGED <<received, cbUnderLock>>
    /\ UNCHANGED <<kind, state, error, value, slotCount, disposedD, budget,
                   subscribed, expected, stateAtSub, errorAtSub>>
    /\ UNCHANGED sjHist

\* return Disposable::Empty(); the guard releases the lock (lines 378, 381).
PublishSubscribeReturn(t) ==
    /\ th[t].pc = "returnEmpty"
    /\ lock' = "none"
    /\ ret' = [ret EXCEPT ![th[t].obs] = "Empty"]
    /\ th' = [th EXCEPT ![t].pc = "idle"]
    /\ UNCHANGED <<kind, state, error, value, slotCount, observers, received,
                   disposedD, budget, subscribed, attached, expected, stateAtSub,
                   errorAtSub, cbUnderLock>>
    /\ UNCHANGED sjHist

\* BehaviorSubject::Subscribe, the block under the lock (lines 543-576).
BehaviorSubscribeLocked(t) ==
    LET o == th[t].obs
        ins == CountedInsert(observers, slotCount, o)
    IN
    /\ th[t].pc = "subscribe"
    /\ kind = "Behavior"
    /\ th' = [th EXCEPT ![t].pc = "replay",
                        ![t].localState = state,
                        ![t].localValue =
                            IF state \in {"Forwarding", "Completed"} THEN value ELSE <<>>,
                        ![t].localError = IF state = "Error" THEN error ELSE 0]
    /\ IF state = "Forwarding"
       THEN /\ observers' = ins[1]
            /\ slotCount' = ins[2]
            /\ attached' = attached \cup {o}
       ELSE UNCHANGED <<observers, slotCount, attached>>
    /\ lock' = "none"
    /\ UNCHANGED <<kind, state, error, value, received, ret, disposedD, budget,
                   subscribed, expected, stateAtSub, errorAtSub, cbUnderLock>>
    /\ UNCHANGED sjHist

\* AsyncSubject::Subscribe, the block under the lock (lines 697-729).
AsyncSubscribeLocked(t) ==
    LET o == th[t].obs
        ins == CountedInsert(observers, slotCount, o)
    IN
    /\ th[t].pc = "subscribe"
    /\ kind = "Async"
    /\ th' = [th EXCEPT ![t].pc = "replay",
                        ![t].localState = state,
                        ![t].localValue = IF state = "Completed" THEN value ELSE <<>>,
                        ![t].localError = IF state = "Error" THEN error ELSE 0]
    /\ IF state = "Forwarding"
       THEN /\ observers' = ins[1]
            /\ slotCount' = ins[2]
            /\ attached' = attached \cup {o}
       ELSE UNCHANGED <<observers, slotCount, attached>>
    /\ lock' = "none"
    /\ UNCHANGED <<kind, state, error, value, received, ret, disposedD, budget,
                   subscribed, expected, stateAtSub, errorAtSub, cbUnderLock>>
    /\ UNCHANGED sjHist

\* The events BehaviorSubject::Subscribe (lines 578-589) and
\* AsyncSubject::Subscribe (lines 731-741) give the observer after the lock.
ReplayEvents(k, st, val, err) ==
    CASE st = "Completed" ->
            (IF val # <<>> THEN <<<<"next", val[1]>>>> ELSE <<>>) \o <<<<"completed", 0>>>>
      [] st = "Error" -> <<<<"error", err>>>>
      [] OTHER -> IF k = "Behavior" THEN <<<<"next", val[1]>>>> ELSE <<>>

\* BehaviorSubject/AsyncSubject::Subscribe after the lock is released: the
\* replay and the return.
SJSubscribeReplay(t) ==
    LET o == th[t].obs
        evs == ReplayEvents(kind, th[t].localState, th[t].localValue, th[t].localError)
    IN
    /\ th[t].pc = "replay"
    /\ received' = Deliver(received, o, evs)
    /\ cbUnderLock' = (cbUnderLock \/ (evs # <<>> /\ lock = t))
    /\ ret' = [ret EXCEPT ![o] = IF th[t].localState = "Forwarding" THEN "d" ELSE "Empty"]
    /\ th' = [th EXCEPT ![t].pc = "idle"]
    /\ UNCHANGED <<kind, state, error, value, slotCount, observers, lock, disposedD,
                   budget, subscribed, attached, expected, stateAtSub, errorAtSub>>
    /\ UNCHANGED sjHist

\* The observers whose Disposable d has run.
Disposed == {o \in Obs : disposedD[o]}

\* The history of a published value: every attached observer expects it, and
\* it is the latest value if no terminal event came before.
ExpectNext(v) ==
    /\ expected' = [o \in Obs |->
                       IF o \in attached THEN Append(expected[o], <<"next", v>>)
                       ELSE expected[o]]
    /\ latest' = IF firstTerminal = <<>> THEN <<v>> ELSE latest
    /\ UNCHANGED <<firstTerminal, termAtSub, latestAtSub>>

\* The history of a terminal event: every attached observer expects it and
\* none is attached afterwards.
ExpectTerminal(ev) ==
    /\ expected' = [o \in Obs |->
                       IF o \in attached THEN Append(expected[o], ev) ELSE expected[o]]
    /\ attached' = {}
    /\ firstTerminal' = IF firstTerminal = <<>> THEN <<ev>> ELSE firstTerminal
    /\ UNCHANGED <<latest, termAtSub, latestAtSub>>

\* OnNext under the lock: ObserverSubject (lines 410-412) copies the table;
\* BehaviorSubject (596-599) also stores the element; AsyncSubject (748-751)
\* only stores it, and only in state Forwarding.
SJOnNext(t) ==
    \E v \in Elements :
    /\ th[t].pc = "idle"
    /\ lock = "none"
    /\ budget > 0
    /\ budget' = budget - 1
    /\ IF kind = "Async"
       THEN /\ value' = IF state = "Forwarding" THEN <<v>> ELSE value
            /\ th' = [th EXCEPT ![t] = [ThreadIdle EXCEPT !.op = "OnNext", !.arg = v]]
       ELSE /\ value' = IF kind = "Behavior" THEN <<v>> ELSE value
            /\ th' = [th EXCEPT ![t] =
                        [ThreadIdle EXCEPT !.pc = "dispatch", !.op = "OnNext", !.arg = v,
                                           !.local = observers, !.idx = 1,
                                           !.snap = Members(observers),
                                           !.dead = Disposed]]
    /\ ExpectNext(v)
    /\ UNCHANGED <<kind, state, error, slotCount, observers, lock, received, ret,
                   disposedD, subscribed, attached, stateAtSub, errorAtSub, cbUnderLock>>

\* OnCompleted under the lock (lines 422-425, 609-612, 755-759): the state
\* is set, the table is moved out, AsyncSubject also copies the value.
SJOnCompleted(t) ==
    /\ th[t].pc = "idle"
    /\ lock = "none"
    /\ budget > 0
    /\ budget' = budget - 1
    /\ state' = "Completed"
    /\ observers' = <<>>
    /\ th' = [th EXCEPT ![t] =
                [ThreadIdle EXCEPT !.pc = "dispatch", !.op = "OnCompleted",
                                   !.local = observers, !.idx = 1,
                                   !.localValue = IF kind = "Async" THEN value ELSE <<>>,
                                   !.snap = Members(observers),
                                           !.dead = Disposed]]
    /\ ExpectTerminal(<<"completed", 0>>)
    /\ UNCHANGED <<kind, error, value, slotCount, lock, received, ret, disposedD,
                   subscribed, stateAtSub, errorAtSub, cbUnderLock>>

\* OnError under the lock (lines 435-439, 622-626, 772-776): the state and
\* the error are set, the table is moved out.
SJOnError(t) ==
    \E e \in Errors :
    /\ th[t].pc = "idle"
    /\ lock = "none"
    /\ budget > 0
    /\ budget' = budget - 1
    /\ state' = "Error"
    /\ error' = e
    /\ observers' = <<>>
    /\ th' = [th EXCEPT ![t] =
                [ThreadIdle EXCEPT !.pc = "dispatch", !.op = "OnError", !.arg = e,
                                   !.local = observers, !.idx = 1,
                                   !.snap = Members(observers),
                                           !.dead = Disposed]]
    /\ ExpectTerminal(<<"error", e>>)
    /\ UNCHANGED <<kind, value, slotCount, lock, received, ret, disposedD,
                   subscribed, stateAtSub, errorAtSub, cbUnderLock>>

\* A dispatch loop that walks the subject's table instead of its copy.
DispatchTableLive(t) == observers

\* The table the dispatch loop walks: `for (auto& o : local)`.
DispatchTable(t) == th[t].local

\* The callbacks one observer is given by a dispatch loop (lines 413-418,
\* 426-431, 440-445; 760-768 for AsyncSubject::OnCompleted).
DispatchEvents(t) ==
    CASE th[t].op = "OnNext" -> <<<<"next", th[t].arg>>>>
      [] th[t].op = "OnCompleted" ->
            (IF th[t].localValue # <<>> THEN <<<<"next", th[t].localValue[1]>>>> ELSE <<>>)
            \o <<<<"completed", 0>>>>
      [] th[t].op = "OnError" -> <<<<"error", th[t].arg>>>>

\* One iteration of the dispatch loop, or its end.
SJDispatch(t) ==
    LET tbl == DispatchTable(t)
        i == th[t].idx
    IN
    /\ th[t].pc = "dispatch"
    /\ IF i > Len(tbl)
       THEN /\ th' = [th EXCEPT ![t].pc = "idle"]
            /\ UNCHANGED <<received, cbUnderLock>>
       ELSE IF tbl[i] = 0
       THEN /\ th' = [th EXCEPT ![t].idx = i + 1]
            /\ UNCHANGED <<received, cbUnderLock>>
       ELSE /\ received' = Deliver(received, tbl[i], DispatchEvents(t))
            /\ cbUnderLock' = (cbUnderLock \/ lock = t)
            /\ th' = [th EXCEPT ![t].idx = i + 1,
                                ![t].visited = Append(@, tbl[i])]
    /\ UNCHANGED <<kind, state, error, value, slotCount, observers, lock, ret,
                   disposedD, budget, subscribed, attached, expected, stateAtSub,
                   errorAtSub>>
    /\ UNCHANGED sjHist

\* The Disposable d returned by Subscribe, disposed for the first time:
\* self->RemoveObserver(wptr.lock()) (lines 367-372, 353-359; 533-538,
\* 500-509; 687-692, 655-664).
SJDispose(t) ==
    \E o \in Obs :
    \E toRemove \in WeakLock(o) :
    LET rem == RemoveObserver(kind, observers, slotCount, toRemove) IN
    /\ th[t].pc = "idle"
    /\ lock = "none"
    /\ budget > 0
    /\ ret[o] = "d"
    /\ ~disposedD[o]
    /\ budget' = budget - 1
    /\ disposedD' = [disposedD EXCEPT ![o] = TRUE]
    /\ observers' = rem[1]
    /\ slotCount' = rem[2]
    /\ attached' = attached \ {o}
    /\ th' = [th EXCEPT ![t] = [ThreadIdle EXCEPT !.op = "Dispose", !.obs = o]]
    /\ UNCHANGED <<kind, state, error, value, lock, received, ret, subscribed,
                   expected, stateAtSub, errorAtSub, cbUnderLock>>
    /\ UNCHANGED sjHist

\* One step of thread t inside a subject.
SJThread(t) ==
    \/ SJSubscribe(t) /\ UNCHANGED restSJ
    \/ PublishSubscribeLocked(t) /\ UNCHANGED restSJ
    \/ PublishSubscribeReturn(t) /\ UNCHANGED restSJ
    \/ BehaviorSubscribeLocked(t) /\ UNCHANGED restSJ
    \/ AsyncSubscribeLocked(t) /\ UNCHANGED restSJ
    \/ SJSubscribeReplay(t) /\ UNCHANGED restSJ
    \/ SJOnNext(t) /\ UNCHANGED restSJ
    \/ SJOnCompleted(t) /\ UNCHANGED restSJ
    \/ SJOnError(t) /\ UNCHANGED restSJ
    \/ SJDispatch(t) /\ UNCHANGED restSJ
    \/ SJDispose(t) /\ UNCHANGED restSJ

\* Calls made one after another by one caller.
SJSeqNext == SJThread("t1")

\* Calls made by two threads, interleaved at every lock region and callback.
SJConcNext == \E t \in Threads : SJThread(t)

\* ------------------------------------------------------------------
\* Scan: ScanObservable and its sink (lines 186-315, 1324-1437)
\* ------------------------------------------------------------------
\* A value of the accumulation type is written as the sequence of what went
\* into it: the seed is <<0>>, the element x taken as a value is <<x>>.
\* Events are <<"next", a>>, <<"completed", <<>>>> and <<"error", <<e>>>>;
\* the exception of the accumulator is <<"error", <<0>>>>.
ScanSeeds == {<<>>, << <<0>> >>}

\* A mutation of the accumulator: the accumulation so far is forgotten.
accumulatorForgets(a, x) == <<x>>

\* ScanObservable::accumulator, any function of the accumulation and the
\* element: the result records both, so two different folds never agree.
accumulator(a, x) == Append(a, x)

\* ScanObservable::seeder of the overload without seed (line 1436).
seeder(x) == <<x>>

ScanIdle == [pc |-> "idle", op |-> "none", arg |-> 0, res |-> <<>>]

\* The state after construction of Scan(source, seed, accumulator), sd = <<s>>,
\* or Scan(source, accumulator), sd = <<>>; nothing has subscribed yet.
SCInitial(sd, n) ==
    /\ scSink = FALSE
    /\ scSeed = sd
    /\ accumulation = <<>>
    /\ scObserver = "noop"
    /\ scCancel = FALSE
    /\ scCancelDisposed = FALSE
    /\ scTh = [t \in Threads |-> ScanIdle]
    /\ scOut = <<>>
    /\ scInside = {}
    /\ scOverlap = FALSE
    /\ scInput = <<>>
    /\ scBudget = n

\* Producer::Subscribe and the run lambda (lines 290-314, 1399-1404): the
\* sink is created with the downstream observer and the subscription serial
\* as its cancel, and is handed to the source.
SCSubscribe(t) ==
    /\ ~scSink
    /\ scTh[t].pc = "idle"
    /\ scSink' = TRUE
    /\ scObserver' = "downstream"
    /\ scCancel' = TRUE
    /\ UNCHANGED <<scSeed, accumulation, scCancelDisposed, scTh, scOut, scInside,
                   scOverlap, scInput, scBudget>>

\* A call of SinkBase::observer->...: the downstream observer gets the event
\* unless the sink holds the empty Observer by then.
SCDeliver(ev) ==
    /\ scOut' = IF scObserver = "downstream" THEN Append(scOut, ev) ELSE scOut
    /\ scOverlap' = (scOverlap \/ (scObserver = "downstream" /\ scInside # {}))

\* OnNext up to the accumulator's return (lines 1359-1371): the accumulation
\* is read and the accumulator (or the seeder) is called; it may throw.
SCOnNext(t) ==
    \E x \in Elements, thrown \in BOOLEAN :
    /\ scSink
    /\ scTh[t].pc = "idle"
    /\ scBudget > 0
    /\ scBudget' = scBudget - 1
    /\ scInput' = Append(scInput, <<IF thrown THEN "throw" ELSE "next", <<x>> >>)
    /\ scTh' = [scTh EXCEPT ![t] =
                  [pc |-> IF thrown THEN "catch" ELSE "set",
                   op |-> "OnNext",
                   arg |-> x,
                   res |-> IF thrown THEN <<>>
                           ELSE IF accumulation # <<>> THEN accumulator(accumulation[1], x)
                           ELSE IF scSeed # <<>> THEN accumulator(scSeed[1], x)
                           ELSE seeder(x)]]
    /\ UNCHANGED <<scSink, scSeed, accumulation, scObserver, scCancel,
                   scCancelDisposed, scOut, scInside, scOverlap>>

\* accumulation.set(...) with the accumulator's result (lines 1363, 1367).
SCSet(t) ==
    /\ scTh[t].pc = "set"
    /\ accumulation' = <<scTh[t].res>>
    /\ scTh' = [scTh EXCEPT ![t].pc = "next"]
    /\ UNCHANGED <<scSink, scSeed, scObserver, scCancel, scCancelDisposed, scOut,
                   scInside, scOverlap, scInput, scBudget>>

\* SinkBase::observer->OnNext(*accumulation.get()) (line 1378): the
\* accumulation is read again and the callback starts, without the mutex.
SCNextCall(t) ==
    /\ scTh[t].pc = "next"
    /\ SCDeliver(<<"next", accumulation[1]>>)
    /\ scInside' = IF scObserver = "downstream" THEN scInside \cup {t} ELSE scInside
    /\ scTh' = [scTh EXCEPT ![t].pc = "return"]
    /\ UNCHANGED <<scSink, scSeed, accumulation, scObserver, scCancel,
                   scCancelDisposed, scInput, scBudget>>

\* The downstream OnNext callback returns and so does OnNext.
SCReturn(t) ==
    /\ scTh[t].pc = "return"
    /\ scInside' = scInside \ {t}
    /\ scTh' = [scTh EXCEPT ![t].pc = "idle"]
    /\ UNCHANGED <<scSink, scSeed, accumulation, scObserver, scCancel,
                   scCancelDisposed, scOut, scOverlap, scInput, scBudget>>

\* catch (...): SinkBase::observer->OnError(current_exception()) (line 1374).
SCCatch(t) ==
    /\ scTh[t].pc = "catch"
    /\ SCDeliver(<<"error", <<0>> >>)
    /\ scTh' = [scTh EXCEPT ![t].pc = "dispose"]
    /\ UNCHANGED <<scSink, scSeed, accumulation, scObserver, scCancel,
                   scCancelDisposed, scInside, scInput, scBudget>>

\* A mutation of Sink::Dispose: the downstream observer stays in place.
SCSinkDisposeKeepsObserver(t) ==
    /\ scTh[t].pc = "dispose"
    /\ scCancel' = FALSE
    /\ scCancelDisposed' = (scCancelDisposed \/ scCancel)
    /\ scTh' = [scTh EXCEPT ![t].pc = "idle"]
    /\ UNCHANGED <<scSink, scSeed, accumulation, scObserver, scOut, scInside,
                   scOverlap, scInput, scBudget>>

\* Sink::Dispose (lines 209-218), under the mutex: the observer is replaced
\* by the empty Observer, cancel is disposed and reset.
SCSinkDispose(t) ==
    /\ scTh[t].pc = "dispose"
    /\ scObserver' = "noop"
    /\ scCancel' = FALSE
    /\ scCancelDisposed' = (scCancelDisposed \/ scCancel)
    /\ scTh' = [scTh EXCEPT ![t].pc = "idle"]
    /\ UNCHANGED <<scSink, scSeed, accumulation, scOut, scInside, scOverlap,
                   scInput, scBudget>>

\* A mutation of OnCompleted: the seed is never emitted.
SCOnCompletedNoSeed(t) ==
    /\ scSink
    /\ scTh[t].pc = "idle"
    /\ scBudget > 0
    /\ scBudget' = scBudget - 1
    /\ scInput' = Append(scInput, <<"completed", <<>> >>)
    /\ scTh' = [scTh EXCEPT ![t] =
                  [ScanIdle EXCEPT !.pc = "terminal", !.op = "OnCompleted"]]
    /\ UNCHANGED <<scSink, scSeed, accumulation, scObserver, scCancel,
                   scCancelDisposed, scOut, scInside, scOverlap>>

\* OnCompleted up to its test (lines 1380-1382): the seed is emitted first
\* if there is one and nothing was accumulated.
SCOnCompleted(t) ==
    /\ scSink
    /\ scTh[t].pc = "idle"
    /\ scBudget > 0
    /\ scBudget' = scBudget - 1
    /\ scInput' = Append(scInput, <<"completed", <<>> >>)
    /\ scTh' = [scTh EXCEPT ![t] =
                  [ScanIdle EXCEPT
                      !.pc = IF accumulation = <<>> /\ scSeed # <<>>
                             THEN "seed" ELSE "terminal",
                      !.op = "OnCompleted"]]
    /\ UNCHANGED <<scSink, scSeed, accumulation, scObserver, scCancel,
                   scCancelDisposed, scOut, scInside, scOverlap>>

\* SinkBase::observer->OnNext(*parent->seed.get()) (line 1383).
SCSeedCall(t) ==
    /\ scTh[t].pc = "seed"
    /\ SCDeliver(<<"next", scSeed[1]>>)
    /\ scTh' = [scTh EXCEPT ![t].pc = "terminal"]
    /\ UNCHANGED <<scSink, scSeed, accumulation, scObserver, scCancel,
                   scCancelDisposed, scInside, scInput, scBudget>>

\* OnError on entry (line 1388).
SCOnError(t) ==
    \E e \in Errors :
    /\ scSink
    /\ scTh[t].pc = "idle"
    /\ scBudget > 0
    /\ scBudget' = scBudget - 1
    /\ scInput' = Append(scInput, <<"error", <<e>> >>)
    /\ scTh' = [scTh EXCEPT ![t] =
                  [ScanIdle EXCEPT !.pc = "terminal", !.op = "OnError", !.arg = e]]
    /\ UNCHANGED <<scSink, scSeed, accumulation, scObserver, scCancel,
                   scCancelDisposed, scOut, scInside, scOverlap>>

\* SinkBase::observer->OnCompleted() or ->OnError(e) (lines 1385, 1390);
\* SinkBase::Dispose() follows.
SCTerminalCall(t) ==
    /\ scTh[t].pc = "terminal"
    /\ SCDeliver(IF scTh[t].op = "OnCompleted"
                 THEN <<"completed", <<>> >>
                 ELSE <<"error", <<scTh[t].arg>> >>)
    /\ scTh' = [scTh EXCEPT ![t].pc = "dispose"]
    /\ UNCHANGED <<scSink, scSeed, accumulation, scObserver, scCancel,
                   scCancelDisposed, scInside, scInput, scBudget>>

\* The Disposable returned by Producer::Subscribe (lines 309-313):
\* state->sink.Dispose(), which is Sink::Dispose, then
\* state->subscription.Dispose().
SCUserDispose(t) ==
    /\ scSink
    /\ scTh[t].pc = "idle"
    /\ scBudget > 0
    /\ scBudget' = scBudget - 1
    /\ scInput' = Append(scInput, <<"dispose", <<>> >>)
    /\ scObserver' = "noop"
    /\ scCancel' = FALSE
    /\ scCancelDisposed' = TRUE
    /\ UNCHANGED <<scSink, scSeed, accumulation, scTh, scOut, scInside, scOverlap>>

\* One step of thread t on the Scan subscription.
SCThread(t) ==
    \/ SCSubscribe(t) /\ UNCHANGED restSC
    \/ SCOnNext(t) /\ UNCHANGED restSC
    \/ SCSet(t) /\ UNCHANGED restSC
    \/ SCNextCall(t) /\ UNCHANGED restSC
    \/ SCReturn(t) /\ UNCHANGED restSC
    \/ SCCatch(t) /\ UNCHANGED restSC
    \/ SCSinkDispose(t) /\ UNCHANGED restSC
    \/ SCOnCompleted(t) /\ UNCHANGED restSC
    \/ SCSeedCall(t) /\ UNCHANGED restSC
    \/ SCOnError(t) /\ UNCHANGED restSC
    \/ SCTerminalCall(t) /\ UNCHANGED restSC
    \/ SCUserDispose(t) /\ UNCHANGED restSC

\* Upstream calls made one after another by one caller.
SCSeqNext == SCThread("t1")

\* Upstream calls made by two threads, interleaved at every read and write
\* of the accumulation and at every callback.
SCConcNext == \E t \in Threads : SCThread(t)

\* ------------------------------------------------------------------
\* Take (lines 1439-1488)
\* ------------------------------------------------------------------
\* `observer` is the auto-detach observer CreateObservable wraps the
\* downstream observer in; `delivered` is what the downstream observer gets.
TakeIdle == [pc |-> "idle", op |-> "none", local |-> 0, arg |-> 0]

\* The state after the subscribe lambda ran (lines 1450-1486): both
\* counters hold n and the upstream is subscribed.
TKInitial(n, calls_) ==
    /\ tkN = n
    /\ tkIn = n
    /\ tkOut = n
    /\ tkTh = [t \in Threads |-> TakeIdle]
    /\ tkCdDisposed = FALSE
    /\ tkInput = <<>>
    /\ tkBudget = calls_

\* No thread is inside one of Take's lambdas.
TKQuiet == \A u \in Threads : tkTh[u].pc = "idle"

\* No thread is inside on completed or on error: the upstream makes its
\* terminal call apart from its calls of OnNext, which may overlap each other.
TKNoTerminalRunning ==
    \A u \in Threads : tkTh[u].pc = "idle" \/ tkTh[u].op = "OnNext"

\* on next, first statement (line 1459): local = --get<0>(*remaining).
\* With local < 0 neither the guard nor the body does anything.
TKOnNext(t) ==
    \E x \in Elements :
    /\ tkTh[t].pc = "idle"
    /\ TKNoTerminalRunning
    /\ tkBudget > 0
    /\ tkBudget' = tkBudget - 1
    /\ tkInput' = Append(tkInput, <<"next", x>>)
    /\ tkIn' = tkIn - 1
    /\ tkTh' = [tkTh EXCEPT ![t] =
                  [pc |-> IF tkIn - 1 >= 0 THEN "forward" ELSE "idle",
                   op |-> "OnNext", local |-> tkIn - 1, arg |-> x]]
    /\ UNCHANGED <<tkN, tkOut, tkCdDisposed, adVars>>

\* if (local >= 0) observer->OnNext(element) (lines 1468-1470): the call
\* enters the auto-detach observer.
TKForward(t) ==
    /\ tkTh[t].pc = "forward"
    /\ ADEnter(t, "OnNext", tkTh[t].arg)
    /\ tkTh' = [tkTh EXCEPT ![t].pc = "forwarded"]
    /\ UNCHANGED <<tkN, tkIn, tkOut, tkCdDisposed, tkInput, tkBudget>>

\* The guard of RXCPP_UNWIND_AUTO (lines 1460-1466), run when the lambda is
\* left, by return or by exception: --get<1>(*remaining), and at zero the
\* completion.
TKUnwind(t) ==
    /\ tkTh[t].pc = "forwarded"
    /\ pc[t] = "idle"
    /\ tkOut' = tkOut - 1
    /\ tkTh' = [tkTh EXCEPT ![t].pc = IF tkOut - 1 = 0 THEN "complete" ELSE "idle"]
    /\ UNCHANGED <<tkN, tkIn, tkCdDisposed, tkInput, tkBudget, adVars>>

\* observer->OnCompleted() (lines 1465, 1476).
TKComplete(t) ==
    /\ tkTh[t].pc = "complete"
    /\ ADEnter(t, "OnCompleted", 0)
    /\ tkTh' = [tkTh EXCEPT ![t].pc = "terminated"]
    /\ UNCHANGED <<tkN, tkIn, tkOut, tkCdDisposed, tkInput, tkBudget>>

\* cd.Dispose() (lines 1466, 1477, 1484), once the observer's call is over.
TKCdDispose(t) ==
    /\ tkTh[t].pc = "terminated"
    /\ pc[t] = "idle"
    /\ tkCdDisposed' = TRUE
    /\ tkTh' = [tkTh EXCEPT ![t].pc = "idle"]
    /\ UNCHANGED <<tkN, tkIn, tkOut, tkInput, tkBudget, adVars>>

\* A mutation of on completed: the counters are not looked at.
TKOnCompletedUnchecked(t) ==
    /\ tkTh[t].pc = "idle"
    /\ TKQuiet
    /\ tkBudget > 0
    /\ tkBudget' = tkBudget - 1
    /\ tkInput' = Append(tkInput, <<"completed", 0>>)
    /\ tkTh' = [tkTh EXCEPT ![t] =
                  [TakeIdle EXCEPT !.pc = "complete", !.op = "OnCompleted"]]
    /\ UNCHANGED <<tkN, tkIn, tkOut, tkCdDisposed, adVars>>

\* on completed (lines 1473-1479): completed is passed on only if both
\* counters are used up. The upstream calls it when its calls of OnNext
\* have returned.
TKOnCompleted(t) ==
    /\ tkTh[t].pc = "idle"
    /\ TKQuiet
    /\ tkBudget > 0
    /\ tkBudget' = tkBudget - 1
    /\ tkInput' = Append(tkInput, <<"completed", 0>>)
    /\ tkTh' = [tkTh EXCEPT ![t] =
                  [TakeIdle EXCEPT !.pc = IF tkOut = 0 /\ tkIn <= 0
                                          THEN "complete" ELSE "idle",
                                   !.op = "OnCompleted"]]
    /\ UNCHANGED <<tkN, tkIn, tkOut, tkCdDisposed, adVars>>

\* on error (lines 1481-1485): observer->OnError(error), then cd.Dispose().
TKOnError(t) ==
    /\ tkTh[t].pc = "idle"
    /\ TKQuiet
    /\ tkBudget > 0
    /\ tkBudget' = tkBudget - 1
    /\ tkInput' = Append(tkInput, <<"error", 0>>)
    /\ ADEnter(t, "OnError", 0)
    /\ tkTh' = [tkTh EXCEPT ![t] =
                  [TakeIdle EXCEPT !.pc = "terminated", !.op = "OnError"]]
    /\ UNCHANGED <<tkN, tkIn, tkOut, tkCdDisposed>>

\* One step of thread t in Take's lambdas or in the auto-detach observer
\* they call.
TKThread(t) ==
    \/ TKOnNext(t) /\ UNCHANGED restTK
    \/ TKForward(t) /\ UNCHANGED restTK
    \/ TKUnwind(t) /\ UNCHANGED restTK
    \/ TKComplete(t) /\ UNCHANGED restTK
    \/ TKCdDispose(t) /\ UNCHANGED restTK
    \/ TKOnCompleted(t) /\ UNCHANGED restTK
    \/ TKOnError(t) /\ UNCHANGED restTK
    \/ ADNextCall(t) /\ UNCHANGED restAD
    \/ ADSwapRead(t) /\ UNCHANGED restAD
    \/ ADSwapWrite(t) /\ UNCHANGED restAD
    \/ ADFinalCall(t) /\ UNCHANGED restAD

\* Upstream calls made one after another by one caller.
TKSeqNext == TKThread("t1")

\* Upstream calls of OnNext made by two threads.
TKConcNext == \E t \in Threads : TKThread(t)

\* ------------------------------------------------------------------
\* TakeUntil (lines 1489-1571)
\* ------------------------------------------------------------------
\* The source lambdas run on thread "t1" and call the auto-detach observer;
\* the trigger lambdas are one atomic store each and run at any moment.
\* Subscribe wraps each set of lambdas in a CreatedObserver, which drops its
\* lambdas at the terminal call (lines 122-183): no call follows it.
OpIdle == [pc |-> "idle", op |-> "none", arg |-> 0]

\* The state after the subscribe lambda ran (lines 1497-1520): Live, Taking.
TUInitial(n) ==
    /\ tuTerminus = "Live"
    /\ tuTake = "Taking"
    /\ tuTh = OpIdle
    /\ tuCd = FALSE
    /\ tuSrcDone = FALSE
    /\ tuTrigDone = FALSE
    /\ tuTrigError = FALSE
    /\ tuInput = <<>>
    /\ tuBudget = n

\* A mutation of the trigger lambdas: the state is left as it was.
TUTriggerIgnored(t) ==
    \E ev \in {"next", "completed", "error"} :
    /\ ~tuTrigDone
    /\ tuBudget > 0
    /\ tuBudget' = tuBudget - 1
    /\ tuTrigDone' = (ev # "next")
    /\ tuTrigError' = (tuTrigError \/
                         (ev = "error" /\ tuTerminus = "Live" /\ tuTake = "Taking"))
    /\ tuInput' = Append(tuInput, <<"trigger", 0>>)
    /\ UNCHANGED <<tuTerminus, tuTake, tuTh, tuCd, tuSrcDone, adVars>>

\* The trigger's on next, on completed and on error (lines 1522-1537): each
\* only stores Terminated.
TUTrigger(t) ==
    \E ev \in {"next", "completed", "error"} :
    /\ ~tuTrigDone
    /\ tuBudget > 0
    /\ tuBudget' = tuBudget - 1
    /\ tuTrigDone' = (ev # "next")
    /\ tuTrigError' = (tuTrigError \/
                         (ev = "error" /\ tuTerminus = "Live" /\ tuTake = "Taking"))
    /\ tuInput' = Append(tuInput, <<"trigger", 0>>)
    /\ tuTerminus' = "Terminated"
    /\ UNCHANGED <<tuTake, tuTh, tuCd, tuSrcDone, adVars>>

\* The source's on next up to its tests (lines 1542-1546): Live forwards,
\* otherwise takeState.exchange(Completed) decides whether to complete.
TUOnNext(t) ==
    \E x \in Elements :
    /\ tuTh.pc = "idle"
    /\ ~tuSrcDone
    /\ tuBudget > 0
    /\ tuBudget' = tuBudget - 1
    /\ tuInput' = Append(tuInput, <<"next", x>>)
    /\ tuTake' = IF tuTerminus = "Live" THEN tuTake ELSE "Completed"
    /\ tuTh' = [pc |-> IF tuTerminus = "Live" THEN "forward"
                       ELSE IF tuTake = "Taking" THEN "complete" ELSE "idle",
                op |-> "OnNext", arg |-> x]
    /\ UNCHANGED <<tuTerminus, tuCd, tuSrcDone, tuTrigDone, tuTrigError, adVars>>

\* observer->OnNext(element) (line 1545).
TUForward(t) ==
    /\ tuTh.pc = "forward"
    /\ ADEnter(t, "OnNext", tuTh.arg)
    /\ tuTh' = [tuTh EXCEPT !.pc = "forwarded"]
    /\ UNCHANGED <<tuTerminus, tuTake, tuCd, tuSrcDone, tuTrigDone, tuTrigError,
                   tuInput, tuBudget>>

\* on next returns once the observer's call is over.
TUReturn(t) ==
    /\ tuTh.pc = "forwarded"
    /\ pc[t] = "idle"
    /\ tuTh' = [tuTh EXCEPT !.pc = "idle"]
    /\ UNCHANGED <<tuTerminus, tuTake, tuCd, tuSrcDone, tuTrigDone, tuTrigError,
                   tuInput, tuBudget, adVars>>

\* observer->OnCompleted() (lines 1547, 1556).
TUComplete(t) ==
    /\ tuTh.pc = "complete"
    /\ ADEnter(t, "OnCompleted", 0)
    /\ tuTh' = [tuTh EXCEPT !.pc = "terminated"]
    /\ UNCHANGED <<tuTerminus, tuTake, tuCd, tuSrcDone, tuTrigDone, tuTrigError,
                   tuInput, tuBudget>>

\* cd.Dispose() (lines 1548, 1557, 1566), once the observer's call is over.
TUCdDispose(t) ==
    /\ tuTh.pc = "terminated"
    /\ pc[t] = "idle"
    /\ tuCd' = TRUE
    /\ tuTh' = [tuTh EXCEPT !.pc = "idle"]
    /\ UNCHANGED <<tuTerminus, tuTake, tuSrcDone, tuTrigDone, tuTrigError,
                   tuInput, tuBudget, adVars>>

\* The source's on completed (lines 1552-1559).
TUOnCompleted(t) ==
    /\ tuTh.pc = "idle"
    /\ ~tuSrcDone
    /\ tuBudget > 0
    /\ tuBudget' = tuBudget - 1
    /\ tuSrcDone' = TRUE
    /\ tuInput' = Append(tuInput, <<"completed", 0>>)
    /\ tuTake' = "Completed"
    /\ tuTerminus' = IF tuTake = "Taking" THEN "Terminated" ELSE tuTerminus
    /\ tuTh' = [pc |-> IF tuTake = "Taking" THEN "complete" ELSE "idle",
                op |-> "OnCompleted", arg |-> 0]
    /\ UNCHANGED <<tuCd, tuTrigDone, tuTrigError, adVars>>

\* The source's on error (lines 1561-1567).
TUOnError(t) ==
    /\ tuTh.pc = "idle"
    /\ ~tuSrcDone
    /\ tuBudget > 0
    /\ tuBudget' = tuBudget - 1
    /\ tuSrcDone' = TRUE
    /\ tuInput' = Append(tuInput, <<"error", 0>>)
    /\ tuTake' = "Completed"
    /\ tuTerminus' = "Terminated"
    /\ ADEnter(t, "OnError", 0)
    /\ tuTh' = [pc |-> "terminated", op |-> "OnError", arg |-> 0]
    /\ UNCHANGED <<tuCd, tuTrigDone, tuTrigError>>

\* One step of TakeUntil, or of the auto-detach observer it calls.
TUThread(t) ==
    \/ TUTrigger(t) /\ UNCHANGED restTU
    \/ TUOnNext(t) /\ UNCHANGED restTU
    \/ TUForward(t) /\ UNCHANGED restTU
    \/ TUReturn(t) /\ UNCHANGED restTU
    \/ TUComplete(t) /\ UNCHANGED restTU
    \/ TUCdDispose(t) /\ UNCHANGED restTU
    \/ TUOnCompleted(t) /\ UNCHANGED restTU
    \/ TUOnError(t) /\ UNCHANGED restTU
    \/ ADNextCall(t) /\ UNCHANGED restAD
    \/ ADSwapRead(t) /\ UNCHANGED restAD
    \/ ADSwapWrite(t) /\ UNCHANGED restAD
    \/ ADFinalCall(t) /\ UNCHANGED restAD

TUNext == TUThread("t1")

\* ------------------------------------------------------------------
\* Skip (lines 1573-1623)
\* ------------------------------------------------------------------
\* The state after the subscribe lambda ran (lines 1590-1591).
SKInitial(n, calls_) ==
    /\ skN = n
    /\ skRemaining = n
    /\ skState = "Skipping"
    /\ skTh = OpIdle
    /\ skCd = FALSE
    /\ skSrcDone = FALSE
    /\ skInput = <<>>
    /\ skBudget = calls_

\* on next up to its tests (lines 1598-1607): Forwarding forwards; otherwise
\* local = --get<0>(*remaining), and local == 0 stores Forwarding.
SKOnNext(t) ==
    \E x \in Elements :
    /\ skTh.pc = "idle"
    /\ ~skSrcDone
    /\ skBudget > 0
    /\ skBudget' = skBudget - 1
    /\ skInput' = Append(skInput, <<"next", x>>)
    /\ skRemaining' = IF skState = "Forwarding" THEN skRemaining ELSE skRemaining - 1
    /\ skState' = IF skState = "Skipping" /\ skRemaining - 1 = 0
                  THEN "Forwarding" ELSE skState
    /\ skTh' = [pc |-> IF skState = "Forwarding" THEN "forward" ELSE "idle",
                op |-> "OnNext", arg |-> x]
    /\ UNCHANGED <<skN, skCd, skSrcDone, adVars>>

\* observer->OnNext(element) (line 1599).
SKForward(t) ==
    /\ skTh.pc = "forward"
    /\ ADEnter(t, "OnNext", skTh.arg)
    /\ skTh' = [skTh EXCEPT !.pc = "forwarded"]
    /\ UNCHANGED <<skN, skRemaining, skState, skCd, skSrcDone, skInput, skBudget>>

\* on next returns once the observer's call is over.
SKReturn(t) ==
    /\ skTh.pc = "forwarded"
    /\ pc[t] = "idle"
    /\ skTh' = [skTh EXCEPT !.pc = "idle"]
    /\ UNCHANGED <<skN, skRemaining, skState, skCd, skSrcDone, skInput, skBudget,
                   adVars>>

\* on completed and on error (lines 1610-1620): the event is passed on.
SKOnTerminal(t) ==
    \E o \in Terminal :
    /\ skTh.pc = "idle"
    /\ ~skSrcDone
    /\ skBudget > 0
    /\ skBudget' = skBudget - 1
    /\ skSrcDone' = TRUE
    /\ skInput' = Append(skInput, EventOf(o, 0))
    /\ ADEnter(t, o, 0)
    /\ skTh' = [pc |-> "terminated", op |-> o, arg |-> 0]
    /\ UNCHANGED <<skN, skRemaining, skState, skCd>>

\* cd.Dispose() (lines 1613, 1619), once the observer's call is over.
SKCdDispose(t) ==
    /\ skTh.pc = "terminated"
    /\ pc[t] = "idle"
    /\ skCd' = TRUE
    /\ skTh' = [skTh EXCEPT !.pc = "idle"]
    /\ UNCHANGED <<skN, skRemaining, skState, skSrcDone, skInput, skBudget, adVars>>

\* One step of Skip, or of the auto-detach observer it calls.
SKThread(t) ==
    \/ SKOnNext(t) /\ UNCHANGED restSK
    \/ SKForward(t) /\ UNCHANGED restSK
    \/ SKReturn(t) /\ UNCHANGED restSK
    \/ SKOnTerminal(t) /\ UNCHANGED restSK
    \/ SKCdDispose(t) /\ UNCHANGED restSK
    \/ ADNextCall(t) /\ UNCHANGED restAD
    \/ ADSwapRead(t) /\ UNCHANGED restAD
    \/ ADSwapWrite(t) /\ UNCHANGED restAD
    \/ ADFinalCall(t) /\ UNCHANGED restAD

SKNext == SKThread("t1")

\* ------------------------------------------------------------------
\* Merge (lines 962-1037)
\* ------------------------------------------------------------------
\* One observable returned by Merge(firstSource, otherSource) and up to two
\* subscriptions to it. Each subscription subscribes to its own run of the
\* two sources and has its own auto-detach observer; `state` is made once,
\* in Merge, and captured by every subscription (lines 1059-1065).
\* Source calls are made one after another, in any order across sources.
MergeSubs == {1, 2}
MergeSources == {1, 2}

\* size_t arithmetic: --0 wraps around. The real modulus is 2^64; the model
\* checker's integers end below 2^31 and no run decrements more often than
\* MaxMergeOps times, so a smaller power of two behaves the same.
SizeModulus == 2^30

\* The value x emitted by source i, told apart from the other source's.
MergeValue(i, x) == 10 * i + x

\* The state after Merge(...) returned: pendingComplete(SourcesSize::value).
MGInitial(n) ==
    /\ mgPending = Cardinality(MergeSources)
    /\ mgSub = [s \in MergeSubs |-> "none"]
    /\ mgObserver = [s \in MergeSubs |-> "null"]
    /\ mgDelivered = [s \in MergeSubs |-> <<>>]
    /\ mgCd = [s \in MergeSubs |-> FALSE]
    /\ mgSrc = [s \in MergeSubs |-> [i \in MergeSources |-> "live"]]
    /\ mgSent = [s \in MergeSubs |-> [i \in MergeSources |-> <<>>]]
    /\ mgBudget = n

\* CreatedAutoDetachObserver for calls made one after another (lines 25-58):
\* an event is handed on while `observer` is set, a terminal one clears it.
MGCall(s, ev) ==
    /\ mgDelivered' = [mgDelivered EXCEPT ![s] =
                          IF mgObserver[s] = "inner" THEN Append(@, ev) ELSE @]
    /\ mgObserver' = [mgObserver EXCEPT ![s] = IF ev[1] = "next" THEN @ ELSE "null"]

\* Subscribe to the Merge observable (lines 1032-1036): the subscribe lambda
\* subscribes to every source with the shared state.
MGSubscribe(s) ==
    /\ mgSub[s] = "none"
    /\ s = 1 \/ mgSub[1] = "active"
    /\ mgSub' = [mgSub EXCEPT ![s] = "active"]
    /\ mgObserver' = [mgObserver EXCEPT ![s] = "inner"]
    /\ UNCHANGED <<mgPending, mgDelivered, mgCd, mgSrc, mgSent, mgBudget>>

\* on next of source i (lines 977-980).
MGOnNext(s, i) ==
    \E x \in Elements :
    /\ mgSub[s] = "active"
    /\ mgSrc[s][i] = "live"
    /\ mgBudget > 0
    /\ mgBudget' = mgBudget - 1
    /\ mgSent' = [mgSent EXCEPT ![s][i] = Append(@, MergeValue(i, x))]
    /\ MGCall(s, <<"next", MergeValue(i, x)>>)
    /\ UNCHANGED <<mgPending, mgSub, mgCd, mgSrc>>

\* on completed of source i (lines 982-988):
\* if (--state->pendingComplete == 0) { observer->OnCompleted(); cd.Dispose(); }
MGOnCompleted(s, i) ==
    /\ mgSub[s] = "active"
    /\ mgSrc[s][i] = "live"
    /\ mgBudget > 0
    /\ mgBudget' = mgBudget - 1
    /\ mgSrc' = [mgSrc EXCEPT ![s][i] = "completed"]
    /\ mgPending' = (mgPending - 1) % SizeModulus
    /\ IF (mgPending - 1) % SizeModulus = 0
       THEN /\ MGCall(s, <<"completed", 0>>)
            /\ mgCd' = [mgCd EXCEPT ![s] = TRUE]
       ELSE UNCHANGED <<mgDelivered, mgObserver, mgCd>>
    /\ UNCHANGED <<mgSub, mgSent>>

\* on error of source i (lines 990-994).
MGOnError(s, i) ==
    /\ mgSub[s] = "active"
    /\ mgSrc[s][i] = "live"
    /\ mgBudget > 0
    /\ mgBudget' = mgBudget - 1
    /\ mgSrc' = [mgSrc EXCEPT ![s][i] = "error"]
    /\ MGCall(s, <<"error", 0>>)
    /\ mgCd' = [mgCd EXCEPT ![s] = TRUE]
    /\ UNCHANGED <<mgPending, mgSub, mgSent>>

MGNext ==
    \/ \E s \in MergeSubs : MGSubscribe(s) /\ UNCHANGED restMG
    \/ \E s \in MergeSubs, i \in MergeSources : MGOnNext(s, i) /\ UNCHANGED restMG
    \/ \E s \in MergeSubs, i \in MergeSources : MGOnCompleted(s, i) /\ UNCHANGED restMG
    \/ \E s \in MergeSubs, i \in MergeSources : MGOnError(s, i) /\ UNCHANGED restMG

\* ------------------------------------------------------------------
\* GroupBy (lines 1108-1196)
\* ------------------------------------------------------------------
\* The selectors of the subscription under check: two elements share a key,
\* and a value differs from its element. Either may throw instead.
GroupElements == 1..MaxGroupElement
keySelector(x) == x % 2
valueSelector(x) == 10 * x
GroupKeys == {keySelector(x) : x \in GroupElements}

\* The state after the subscribe lambda ran (lines 1124-1134): no group yet.
GBInitial(n) ==
    /\ gbGroups = {}
    /\ gbPushed = [k \in GroupKeys |-> <<>>]
    /\ gbTh = OpIdle
    /\ gbSrcDone = FALSE
    /\ gbThrown = FALSE
    /\ gbEarly = FALSE
    /\ gbInput = <<>>
    /\ gbBudget = n

\* A mutation of on next: every element announces its group.
GBOnNextAlwaysNew(t) ==
    \E x \in GroupElements :
    /\ gbTh.pc = "idle"
    /\ ~gbSrcDone
    /\ gbBudget > 0
    /\ gbBudget' = gbBudget - 1
    /\ gbInput' = Append(gbInput, <<"next", x>>)
    /\ gbGroups' = gbGroups \cup {keySelector(x)}
    /\ ADEnter(t, "OnNext", keySelector(x))
    /\ gbTh' = [pc |-> "select", op |-> "OnNext", arg |-> x]
    /\ UNCHANGED <<gbPushed, gbSrcDone, gbThrown, gbEarly>>

\* on next up to the value selector (lines 1139-1165): a throwing key
\* selector sends the exception to the outer observer and the key stays
\* empty; otherwise the key's subject is inserted and, when the insert made
\* a new entry, sent to the outer observer.
GBOnNext(t) ==
    \E x \in GroupElements, throws \in BOOLEAN :
    /\ gbTh.pc = "idle"
    /\ ~gbSrcDone
    /\ gbBudget > 0
    /\ gbBudget' = gbBudget - 1
    /\ gbInput' = Append(gbInput, <<"next", x>>)
    /\ IF throws
       THEN /\ ADEnter(t, "OnError", 0)
            /\ gbThrown' = TRUE
            /\ gbTh' = [pc |-> "returning", op |-> "OnNext", arg |-> x]
            /\ UNCHANGED gbGroups
       ELSE /\ gbGroups' = gbGroups \cup {keySelector(x)}
            /\ IF keySelector(x) \notin gbGroups
               THEN ADEnter(t, "OnNext", keySelector(x))
               ELSE UNCHANGED adVars
            /\ gbTh' = [pc |-> "select", op |-> "OnNext", arg |-> x]
            /\ UNCHANGED gbThrown
    /\ UNCHANGED <<gbPushed, gbSrcDone, gbEarly>>

\* The value selector and the push (lines 1167-1175), once the outer
\* observer's call is over: a throwing selector sends the exception to the
\* outer observer, a value goes to the key's subject.
GBSelect(t) ==
    \E throws \in BOOLEAN :
    /\ gbTh.pc = "select"
    /\ pc[t] = "idle"
    /\ IF throws
       THEN /\ ADEnter(t, "OnError", 0)
            /\ gbThrown' = TRUE
            /\ gbTh' = [gbTh EXCEPT !.pc = "returning"]
            /\ UNCHANGED <<gbPushed, gbEarly>>
       ELSE /\ gbPushed' = [gbPushed EXCEPT ![keySelector(gbTh.arg)] =
                               Append(@, <<"next", valueSelector(gbTh.arg)>>)]
            /\ gbEarly' = (gbEarly \/ ~(\E j \in 1..Len(delivered) :
                               delivered[j] = <<"next", keySelector(gbTh.arg)>>))
            /\ gbTh' = [gbTh EXCEPT !.pc = "idle"]
            /\ UNCHANGED <<gbThrown, adVars>>
    /\ UNCHANGED <<gbGroups, gbSrcDone, gbInput, gbBudget>>

\* The handler returns once the outer observer's call is over.
GBReturn(t) ==
    /\ gbTh.pc = "returning"
    /\ pc[t] = "idle"
    /\ gbTh' = [gbTh EXCEPT !.pc = "idle"]
    /\ UNCHANGED <<gbGroups, gbPushed, gbSrcDone, gbThrown, gbEarly, gbInput,
                   gbBudget, adVars>>

\* A mutation of the terminal handlers: the groups are passed over.
GBOnTerminalOuterOnly(t) ==
    \E o \in Terminal :
    /\ gbTh.pc = "idle"
    /\ ~gbSrcDone
    /\ gbBudget > 0
    /\ gbBudget' = gbBudget - 1
    /\ gbSrcDone' = TRUE
    /\ gbInput' = Append(gbInput, EventOf(o, 0))
    /\ gbTh' = [pc |-> "outer", op |-> o, arg |-> 0]
    /\ UNCHANGED <<gbGroups, gbPushed, gbThrown, gbEarly, adVars>>

\* on completed and on error, the loop (lines 1179-1182, 1187-1190): every
\* subject in state->groups gets the event.
GBOnTerminal(t) ==
    \E o \in Terminal :
    /\ gbTh.pc = "idle"
    /\ ~gbSrcDone
    /\ gbBudget > 0
    /\ gbBudget' = gbBudget - 1
    /\ gbSrcDone' = TRUE
    /\ gbInput' = Append(gbInput, EventOf(o, 0))
    /\ gbPushed' = [k \in GroupKeys |->
                       IF k \in gbGroups THEN Append(gbPushed[k], EventOf(o, 0))
                       ELSE gbPushed[k]]
    /\ gbTh' = [pc |-> "outer", op |-> o, arg |-> 0]
    /\ UNCHANGED <<gbGroups, gbThrown, gbEarly, adVars>>

\* observer->OnCompleted() / observer->OnError(error) (lines 1183, 1191).
GBOuterTerminal(t) ==
    /\ gbTh.pc = "outer"
    /\ ADEnter(t, gbTh.op, 0)
    /\ gbTh' = [gbTh EXCEPT !.pc = "returning"]
    /\ UNCHANGED <<gbGroups, gbPushed, gbSrcDone, gbThrown, gbEarly, gbInput, gbBudget>>

\* One step of GroupBy, or of the outer auto-detach observer it calls.
GBThread(t) ==
    \/ GBOnNext(t) /\ UNCHANGED restGB
    \/ GBSelect(t) /\ UNCHANGED restGB
    \/ GBReturn(t) /\ UNCHANGED restGB
    \/ GBOnTerminal(t) /\ UNCHANGED restGB
    \/ GBOuterTerminal(t) /\ UNCHANGED restGB
    \/ ADNextCall(t) /\ UNCHANGED restAD
    \/ ADSwapRead(t) /\ UNCHANGED restAD
    \/ ADSwapWrite(t) /\ UNCHANGED restAD
    \/ ADFinalCall(t) /\ UNCHANGED restAD

GBNext == GBThread("t1")

\* ------------------------------------------------------------------
\* Where (lines 1069-1106)
\* ------------------------------------------------------------------
\* The predicate of the subscription under check; it may throw instead.
predicate(x) == x % 2 = 1

\* The state after the subscribe lambda ran (lines 1076-1104). The
\* Disposable it returns, the subscription to the source, is what the
\* auto-detach observer's `disposable` holds.
WHInitial(n) ==
    /\ whTh = OpIdle
    /\ whSrcDone = FALSE
    /\ whThrown = FALSE
    /\ whLateEval = FALSE
    /\ whInput = <<>>
    /\ whBudget = n

\* on next (lines 1081-1094): the predicate is evaluated; an exception goes
\* to observer->OnError and leaves result empty, a true result forwards the
\* element.
WHOnNext(t) ==
    \E x \in Elements, throws \in BOOLEAN :
    /\ whTh.pc = "idle"
    /\ ~whSrcDone
    /\ whBudget > 0
    /\ whBudget' = whBudget - 1
    /\ whInput' = Append(whInput, <<"next", x>>)
    /\ whLateEval' = (whLateEval \/ whThrown)
    /\ whThrown' = (whThrown \/ throws)
    /\ IF throws
       THEN /\ ADEnter(t, "OnError", 0)
            /\ whTh' = [pc |-> "returning", op |-> "OnNext", arg |-> x]
       ELSE IF predicate(x)
       THEN /\ ADEnter(t, "OnNext", x)
            /\ whTh' = [pc |-> "returning", op |-> "OnNext", arg |-> x]
       ELSE /\ whTh' = [pc |-> "idle", op |-> "OnNext", arg |-> x]
            /\ UNCHANGED adVars
    /\ UNCHANGED whSrcDone

\* on completed and on error (lines 1096-1104): the event is passed on.
WHOnTerminal(t) ==
    \E o \in Terminal :
    /\ whTh.pc = "idle"
    /\ ~whSrcDone
    /\ whBudget > 0
    /\ whBudget' = whBudget - 1
    /\ whInput' = Append(whInput, EventOf(o, 0))
    /\ whSrcDone' = TRUE
    /\ ADEnter(t, o, 0)
    /\ whTh' = [pc |-> "returning", op |-> o, arg |-> 0]
    /\ UNCHANGED <<whThrown, whLateEval>>

\* The handler returns once the observer's call is over.
WHReturn(t) ==
    /\ whTh.pc = "returning"
    /\ pc[t] = "idle"
    /\ whTh' = [whTh EXCEPT !.pc = "idle"]
    /\ UNCHANGED <<whSrcDone, whThrown, whLateEval, whInput, whBudget, adVars>>

\* One step of Where, or of the auto-detach observer it calls.
WHThread(t) ==
    \/ WHOnNext(t) /\ UNCHANGED restWH
    \/ WHOnTerminal(t) /\ UNCHANGED restWH
    \/ WHReturn(t) /\ UNCHANGED restWH
    \/ ADNextCall(t) /\ UNCHANGED restAD
    \/ ADSwapRead(t) /\ UNCHANGED restAD
    \/ ADSwapWrite(t) /\ UNCHANGED restAD
    \/ ADFinalCall(t) /\ UNCHANGED restAD

WHNext == WHThread("t1")

\* ------------------------------------------------------------------
\* Delay (lines 1728-1792)
\* ------------------------------------------------------------------
\* The upstream calls on thread "t1"; the scheduler runs the callbacks it was
\* given one at a time, in the order given (they share one delay), on thread
\* "t2", so a callback may overlap a call of the upstream. *cancel is set by
\* the Disposable added to cd (lines 1742-1743); cd is what the auto-detach
\* observer's `disposable` holds, so *cancel reads as `disposable`.

\* The state after the subscribe lambda ran (lines 1738-1789).
DLInitial(n) ==
    /\ dlQueue = <<>>
    /\ dlTh = OpIdle
    /\ dlSrcDone = FALSE
    /\ dlErrOpen = FALSE
    /\ dlEarly = <<>>
    /\ dlLate = 0
    /\ dlInput = <<>>
    /\ dlBudget = n

\* The error has reached the downstream observer.
ErrorDelivered == \E j \in 1..Len(delivered) : delivered[j][1] = "error"

\* on next (lines 1751-1765): the callback is given to the scheduler and its
\* Disposable stored in cd's slot.
DLOnNext(t) ==
    \E x \in Elements :
    /\ dlTh.pc = "idle"
    /\ ~dlSrcDone
    /\ dlBudget > 0
    /\ dlBudget' = dlBudget - 1
    /\ dlInput' = Append(dlInput, <<"next", x>>)
    /\ dlQueue' = Append(dlQueue, <<"next", x>>)
    /\ UNCHANGED <<dlTh, dlSrcDone, dlErrOpen, dlEarly, dlLate, adVars>>

\* on completed (lines 1767-1781): likewise.
DLOnCompleted(t) ==
    /\ dlTh.pc = "idle"
    /\ ~dlSrcDone
    /\ dlBudget > 0
    /\ dlBudget' = dlBudget - 1
    /\ dlSrcDone' = TRUE
    /\ dlInput' = Append(dlInput, <<"completed", 0>>)
    /\ dlQueue' = Append(dlQueue, <<"completed", 0>>)
    /\ UNCHANGED <<dlTh, dlErrOpen, dlEarly, dlLate, adVars>>

\* A mutation of on error: the error is dropped.
DLOnErrorSilent(t) ==
    /\ dlTh.pc = "idle"
    /\ ~dlSrcDone
    /\ dlBudget > 0
    /\ dlBudget' = dlBudget - 1
    /\ dlSrcDone' = TRUE
    /\ dlInput' = Append(dlInput, <<"error", 0>>)
    /\ dlErrOpen' = (~disposable /\ observer # "null")
    /\ dlTh' = [pc |-> "returning", op |-> "OnError", arg |-> 0]
    /\ UNCHANGED <<dlQueue, dlEarly, dlLate, adVars>>

\* on error (lines 1783-1787): if (!*cancel) observer->OnError(error);
DLOnError(t) ==
    /\ dlTh.pc = "idle"
    /\ ~dlSrcDone
    /\ dlBudget > 0
    /\ dlBudget' = dlBudget - 1
    /\ dlSrcDone' = TRUE
    /\ dlInput' = Append(dlInput, <<"error", 0>>)
    /\ dlErrOpen' = (~disposable /\ observer # "null")
    /\ dlTh' = [pc |-> "returning", op |-> "OnError", arg |-> 0]
    /\ IF ~disposable THEN ADEnter(t, "OnError", 0) ELSE UNCHANGED adVars
    /\ UNCHANGED <<dlQueue, dlEarly, dlLate>>

\* on error returns once the observer's call is over.
DLReturn(t) ==
    /\ dlTh.pc = "returning"
    /\ pc[t] = "idle"
    /\ dlTh' = [dlTh EXCEPT !.pc = "idle"]
    /\ UNCHANGED <<dlQueue, dlSrcDone, dlErrOpen, dlEarly, dlLate, dlInput,
                   dlBudget, adVars>>

\* The scheduler runs the oldest callback (lines 1755-1759, 1771-1775):
\* if (!*cancel) observer->OnNext(element) / observer->OnCompleted();
DLFire(t) ==
    /\ dlQueue # <<>>
    /\ pc[t] = "idle"
    /\ dlQueue' = Tail(dlQueue)
    /\ dlEarly' = IF ErrorDelivered THEN dlEarly ELSE Append(dlEarly, Head(dlQueue))
    /\ dlLate' = IF ErrorDelivered THEN dlLate + 1 ELSE dlLate
    /\ IF ~disposable
       THEN ADEnter(t, IF Head(dlQueue)[1] = "next" THEN "OnNext" ELSE "OnCompleted",
                    Head(dlQueue)[2])
       ELSE UNCHANGED adVars
    /\ UNCHANGED <<dlTh, dlSrcDone, dlErrOpen, dlInput, dlBudget>>

\* The subscriber disposes the subscription: cd is disposed, *cancel is set.
DLDispose ==
    /\ ~disposable
    /\ ~crashed
    /\ disposable' = TRUE
    /\ UNCHANGED <<observer, delivered, pc, op, arg, final, loaded, hadObserver,
                   threw, dispAtCall, lateStart, calls, crashed>>
    /\ UNCHANGED dlVars

\* One step of Delay's upstream, of the scheduler, of the subscriber, or of
\* the auto-detach observer the first two call.
DLNext ==
    \/ DLOnNext("t1") /\ UNCHANGED restDL
    \/ DLOnCompleted("t1") /\ UNCHANGED restDL
    \/ DLOnError("t1") /\ UNCHANGED restDL
    \/ DLReturn("t1") /\ UNCHANGED restDL
    \/ DLFire("t2") /\ UNCHANGED restDL
    \/ DLDispose /\ UNCHANGED restDL
    \/ ADSwapRead("t1") /\ UNCHANGED restAD
    \/ ADSwapWrite("t1") /\ UNCHANGED restAD
    \/ ADFinalCall("t1") /\ UNCHANGED restAD
    \/ ADNextCall("t2") /\ UNCHANGED restAD
    \/ ADSwapRead("t2") /\ UNCHANGED restAD
    \/ ADSwapWrite("t2") /\ UNCHANGED restAD
    \/ ADFinalCall("t2") /\ UNCHANGED restAD

\* ------------------------------------------------------------------
\* Throttle (lines 1794-1876)
\* ------------------------------------------------------------------
\* The upstream calls on thread "t1", the scheduler runs callbacks on thread
\* "t2". sd.Set(d) disposes the Disposable sd held before, which cancels a
\* callback the scheduler has not started; one that was started runs on.

\* The state after the subscribe lambda ran (lines 1804-1816).
TRInitial(n) ==
    /\ trValue = 0
    /\ trHasValue = FALSE
    /\ trId = 0
    /\ trLock = "free"
    /\ trTimer = 0
    /\ trTh = OpIdle
    /\ trCb = [pc |-> "idle", current |-> 0]
    /\ trCd = FALSE
    /\ trSrcDone = FALSE
    /\ trPending = 0
    /\ trOwed = 0
    /\ trFires = <<>>
    /\ trEmits = 0
    /\ trInput = <<>>
    /\ trBudget = n

trState == <<trValue, trHasValue, trId, trLock>>
trHist == <<trPending, trOwed, trFires, trEmits, trInput, trBudget>>

\* on next, the locked block (lines 1823-1829): the value is stored and
\* current = ++state->id.
TROnNext(t) ==
    \E x \in Elements :
    /\ trTh.pc = "idle"
    /\ ~trSrcDone
    /\ trLock = "free"
    /\ trBudget > 0
    /\ trBudget' = trBudget - 1
    /\ trInput' = Append(trInput, <<"next", x>>)
    /\ trHasValue' = TRUE
    /\ trValue' = x
    /\ trId' = trId + 1
    /\ trPending' = x
    /\ trTh' = [pc |-> "schedule", op |-> "OnNext", arg |-> trId + 1]
    /\ UNCHANGED <<trLock, trTimer, trCb, trCd, trSrcDone, trOwed, trFires,
                   trEmits, adVars>>

\* sd.Set(scheduler->Schedule(due, callback)) (lines 1830-1843): the
\* scheduler holds the new callback, the one sd held is cancelled; once cd
\* is disposed, sd disposes what it is given.
TRSchedule(t) ==
    /\ trTh.pc = "schedule"
    /\ trTimer' = IF trCd THEN 0 ELSE trTh.arg
    /\ trTh' = [trTh EXCEPT !.pc = "idle"]
    /\ UNCHANGED <<trState, trCb, trCd, trSrcDone, trHist, adVars>>

\* The scheduler starts the callback (lines 1832-1839): under the lock,
\* if (state->hasValue && state->id == current) observer->OnNext(value);
\* state->hasValue = false.
TRFire(t) ==
    /\ trTimer # 0
    /\ trCb.pc = "idle"
    /\ trLock = "free"
    /\ trTimer' = 0
    /\ trFires' = Append(trFires,
                         <<trTimer, trId, trHasValue /\ trId = trTimer, trSrcDone>>)
    /\ IF trHasValue /\ trId = trTimer
       THEN /\ ADEnter(t, "OnNext", trValue)
            /\ trLock' = t
            /\ trCb' = [pc |-> "emitting", current |-> trTimer]
            /\ trPending' = 0
            /\ trEmits' = trEmits + 1
            /\ UNCHANGED trHasValue
       ELSE /\ trHasValue' = FALSE
            /\ UNCHANGED <<trLock, trCb, trPending, trEmits, adVars>>
    /\ UNCHANGED <<trValue, trId, trTh, trCd, trSrcDone, trOwed, trInput, trBudget>>

\* The callback after observer->OnNext returned (lines 1836-1839).
TRFireEnd(t) ==
    /\ trCb.pc = "emitting"
    /\ pc[t] = "idle"
    /\ trHasValue' = FALSE
    /\ trLock' = "free"
    /\ trCb' = [trCb EXCEPT !.pc = "idle"]
    /\ UNCHANGED <<trValue, trId, trTimer, trTh, trCd, trSrcDone, trHist, adVars>>

\* on completed, the locked block (lines 1848-1857).
TROnCompleted(t) ==
    /\ trTh.pc = "idle"
    /\ ~trSrcDone
    /\ trLock = "free"
    /\ trBudget > 0
    /\ trBudget' = trBudget - 1
    /\ trInput' = Append(trInput, <<"completed", 0>>)
    /\ trSrcDone' = TRUE
    /\ trOwed' = trPending
    /\ trPending' = 0
    /\ trHasValue' = FALSE
    /\ trId' = trId + 1
    /\ trTh' = [pc |-> IF trHasValue THEN "send" ELSE "complete",
                op |-> "OnCompleted", arg |-> IF trHasValue THEN trValue ELSE 0]
    /\ UNCHANGED <<trValue, trLock, trTimer, trCb, trCd, trFires, trEmits, adVars>>

\* if (sendValue) observer->OnNext(std::move(value)) (lines 1858-1859).
TRSend(t) ==
    /\ trTh.pc = "send"
    /\ ADEnter(t, "OnNext", trTh.arg)
    /\ trTh' = [trTh EXCEPT !.pc = "complete"]
    /\ UNCHANGED <<trState, trTimer, trCb, trCd, trSrcDone, trHist>>

\* observer->OnCompleted() (line 1860), once the call before is over.
TRComplete(t) ==
    /\ trTh.pc = "complete"
    /\ ADEnter(t, "OnCompleted", 0)
    /\ trTh' = [trTh EXCEPT !.pc = "terminated"]
    /\ UNCHANGED <<trState, trTimer, trCb, trCd, trSrcDone, trHist>>

\* on error, the locked block (lines 1865-1870).
TROnError(t) ==
    /\ trTh.pc = "idle"
    /\ ~trSrcDone
    /\ trLock = "free"
    /\ trBudget > 0
    /\ trBudget' = trBudget - 1
    /\ trInput' = Append(trInput, <<"error", 0>>)
    /\ trSrcDone' = TRUE
    /\ trPending' = 0
    /\ trHasValue' = FALSE
    /\ trId' = trId + 1
    /\ trTh' = [pc |-> "error", op |-> "OnError", arg |-> 0]
    /\ UNCHANGED <<trValue, trLock, trTimer, trCb, trCd, trOwed, trFires,
                   trEmits, adVars>>

\* observer->OnError(error) (line 1871).
TRError(t) ==
    /\ trTh.pc = "error"
    /\ ADEnter(t, "OnError", 0)
    /\ trTh' = [trTh EXCEPT !.pc = "terminated"]
    /\ UNCHANGED <<trState, trTimer, trCb, trCd, trSrcDone, trHist>>

\* cd.Dispose() (lines 1861, 1872), once the observer's call is over: sd is
\* disposed with it, which cancels the callback the scheduler still holds.
TRCdDispose(t) ==
    /\ trTh.pc = "terminated"
    /\ pc[t] = "idle"
    /\ trCd' = TRUE
    /\ trTimer' = 0
    /\ trTh' = [trTh EXCEPT !.pc = "idle"]
    /\ UNCHANGED <<trState, trCb, trSrcDone, trHist, adVars>>

\* One step of Throttle's upstream, of the scheduler, or of the auto-detach
\* observer they call.
TRNext ==
    \/ TROnNext("t1") /\ UNCHANGED restTR
    \/ TRSchedule("t1") /\ UNCHANGED restTR
    \/ TROnCompleted("t1") /\ UNCHANGED restTR
    \/ TRSend("t1") /\ UNCHANGED restTR
    \/ TRComplete("t1") /\ UNCHANGED restTR
    \/ TROnError("t1") /\ UNCHANGED restTR
    \/ TRError("t1") /\ UNCHANGED restTR
    \/ TRCdDispose("t1") /\ UNCHANGED restTR
    \/ TRFire("t2") /\ UNCHANGED restTR
    \/ TRFireEnd("t2") /\ UNCHANGED restTR
    \/ ADNextCall("t1") /\ UNCHANGED restAD
    \/ ADSwapRead("t1") /\ UNCHANGED restAD
    \/ ADSwapWrite("t1") /\ UNCHANGED restAD
    \/ ADFinalCall("t1") /\ UNCHANGED restAD
    \/ ADNextCall("t2") /\ UNCHANGED restAD

\* ------------------------------------------------------------------
\* DistinctUntilChanged (lines 1925-1965)
\* ------------------------------------------------------------------
\* The state after the subscribe lambda ran (lines 1934-1940).
DCInitial(n) ==
    /\ dcLast = 0
    /\ dcHasValue = FALSE
    /\ dcTh = OpIdle
    /\ dcSrcDone = FALSE
    /\ dcThrew = FALSE
    /\ dcInput = <<>>
    /\ dcBudget = n

\* on next up to observer->OnNext(element) (lines 1944-1948).
DCOnNext(t) ==
    \E x \in Elements :
    /\ dcTh.pc = "idle"
    /\ ~dcSrcDone
    /\ dcBudget > 0
    /\ dcBudget' = dcBudget - 1
    /\ dcInput' = Append(dcInput, <<"next", x>>)
    /\ IF ~dcHasValue \/ ~(dcLast = x)
       THEN /\ ADEnter(t, "OnNext", x)
            /\ dcTh' = [pc |-> "forwarded", op |-> "OnNext", arg |-> x]
       ELSE /\ dcTh' = [pc |-> "idle", op |-> "OnNext", arg |-> x]
            /\ UNCHANGED adVars
    /\ UNCHANGED <<dcLast, dcHasValue, dcSrcDone, dcThrew>>

\* A mutation of the store: the forwarded value is not remembered.
DCStoreNothing(t) ==
    /\ dcTh.pc = "forwarded"
    /\ pc[t] = "idle"
    /\ dcThrew' = (dcThrew \/ threw[t])
    /\ dcTh' = [dcTh EXCEPT !.pc = "idle"]
    /\ UNCHANGED <<dcLast, dcHasValue, dcSrcDone, dcInput, dcBudget, adVars>>

\* state->last = element; state->hasValue = true (lines 1949-1950), once
\* the observer's call is over; an exception thrown by it leaves on next
\* before the two stores.
DCStore(t) ==
    /\ dcTh.pc = "forwarded"
    /\ pc[t] = "idle"
    /\ dcThrew' = (dcThrew \/ threw[t])
    /\ dcLast' = IF threw[t] THEN dcLast ELSE dcTh.arg
    /\ dcHasValue' = IF threw[t] THEN dcHasValue ELSE TRUE
    /\ dcTh' = [dcTh EXCEPT !.pc = "idle"]
    /\ UNCHANGED <<dcSrcDone, dcInput, dcBudget, adVars>>

\* on completed and on error (lines 1953-1962): the event is passed on.
DCOnTerminal(t) ==
    \E o \in Terminal :
    /\ dcTh.pc = "idle"
    /\ ~dcSrcDone
    /\ dcBudget > 0
    /\ dcBudget' = dcBudget - 1
    /\ dcInput' = Append(dcInput, EventOf(o, 0))
    /\ dcSrcDone' = TRUE
    /\ ADEnter(t, o, 0)
    /\ dcTh' = [pc |-> "returning", op |-> o, arg |-> 0]
    /\ UNCHANGED <<dcLast, dcHasValue, dcThrew>>

\* The terminal handler returns once the observer's call is over.
DCReturn(t) ==
    /\ dcTh.pc = "returning"
    /\ pc[t] = "idle"
    /\ dcTh' = [dcTh EXCEPT !.pc = "idle"]
    /\ UNCHANGED <<dcLast, dcHasValue, dcSrcDone, dcThrew, dcInput, dcBudget, adVars>>

\* One step of DistinctUntilChanged, or of the auto-detach observer it calls.
DCThread(t) ==
    \/ DCOnNext(t) /\ UNCHANGED restDC
    \/ DCStore(t) /\ UNCHANGED restDC
    \/ DCOnTerminal(t) /\ UNCHANGED restDC
    \/ DCReturn(t) /\ UNCHANGED restDC
    \/ ADNextCall(t) /\ UNCHANGED restAD
    \/ ADSwapRead(t) /\ UNCHANGED restAD
    \/ ADSwapWrite(t) /\ UNCHANGED restAD
    \/ ADFinalCall(t) /\ UNCHANGED restAD

DCNext == DCThread("t1")

\* ------------------------------------------------------------------
\* RefCountObservable (lines 1229-1305) under Producer::Subscribe (285-314)
\* ------------------------------------------------------------------
\* One RefCount observable over a connectable whose subject passes the
\* source's events on while connected and answers a Subscribe made after its
\* terminal event with that event. Calls are made one after another; a
\* terminal event may come between the two halves of a sink's Run, and from
\* inside Connect when the source emits synchronously.
\* Per subscription s:
\*   phase          "none", "run" (inside Run, subscribed to the subject, not
\*                  yet counted) or "active" (Subscribe returned)
\*   observer       Sink::observer: "real" or "noop"
\*   cancel         Sink::cancel holds state->subscription
\*   serialDisposed state->subscription is disposed
\*   hasR           state->subscription holds the Disposable Run returned
\*   inner          the sink is subscribed to the subject
\*   decs           history: how often the subscription decremented refcount
\*   got            history: terminal events the downstream observer got
\*   handle         the Disposable Subscribe returned was disposed
RefSubs == 1..MaxRefSubs

RefSubIdle ==
    [phase |-> "none", observer |-> "real", cancel |-> FALSE,
     serialDisposed |-> FALSE, hasR |-> FALSE, inner |-> FALSE,
     decs |-> 0, got |-> 0, handle |-> FALSE]

\* RefCountObservable's constructor (lines 1293-1304): refcount(0), no
\* connection. n is how many subscriptions may be made.
RCInitial(n) ==
    rc = [refcount |-> 0, connected |-> FALSE, connects |-> 0, disconnects |-> 0,
          done |-> FALSE, left |-> n, sub |-> [s \in RefSubs |-> RefSubIdle]]

\* A mutation of the Disposable Run returns: the count is left alone.
RCReleaseNoCount(st, s) ==
    [st EXCEPT !.sub[s].inner = FALSE]

\* The Disposable Run returns (lines 1262-1271): subscription.Dispose(), and
\* under the lock, if (--refcount == 0) the connection is disposed and reset.
RCRelease(st, s) ==
    LET n == (st.refcount - 1) % SizeModulus IN
    [st EXCEPT !.sub[s].inner = FALSE,
               !.sub[s].decs = @ + 1,
               !.refcount = n,
               !.connected = IF n = 0 THEN FALSE ELSE @,
               !.disconnects = IF n = 0 THEN @ + 1 ELSE @]

\* state->subscription.Dispose(): a serial disposes what it holds, once.
RCSerialDispose(st, s) ==
    IF st.sub[s].serialDisposed THEN st
    ELSE LET d == [st EXCEPT !.sub[s].serialDisposed = TRUE, !.sub[s].hasR = FALSE] IN
         IF st.sub[s].hasR THEN RCRelease(d, s) ELSE d

\* Sink::Dispose (lines 208-217): the observer becomes a no-op observer;
\* if (cancel) { cancel->Dispose(); cancel.reset(); }
RCSinkDispose(st, s) ==
    LET d == [st EXCEPT !.sub[s].observer = "noop", !.sub[s].cancel = FALSE] IN
    IF st.sub[s].cancel THEN RCSerialDispose(d, s) ELSE d

\* _::OnCompleted / _::OnError (lines 1278-1287): the event goes to
\* SinkBase::observer, then SinkBase::Dispose().
RCSinkTerminal(st, s) ==
    RCSinkDispose([st EXCEPT !.sub[s].got =
                      IF st.sub[s].observer = "real" THEN @ + 1 ELSE @], s)

\* The subject's terminal event: every sink subscribed to it is called, in
\* the order of the table.
RECURSIVE RCDispatch(_, _)
RCDispatch(st, s) ==
    IF s > MaxRefSubs THEN st
    ELSE RCDispatch(IF st.sub[s].inner THEN RCSinkTerminal(st, s) ELSE st, s + 1)

\* Producer::Subscribe up to the middle of Run (lines 301-305, 1295-1298,
\* 1251-1252): the sink is made with state->subscription as its cancel,
\* setSink stores its Disposable, and Run subscribes the sink to the subject,
\* which answers with its terminal event if it has one.
RCSubscribe(s) ==
    /\ rc.sub[s].phase = "none"
    /\ \A r \in 1..(s - 1) : rc.sub[r].phase # "none"
    /\ rc.left > 0
    /\ LET a == [rc EXCEPT !.left = @ - 1,
                           !.sub[s].phase = "run",
                           !.sub[s].cancel = TRUE,
                           !.sub[s].inner = ~rc.done] IN
       rc' = IF rc.done THEN RCSinkTerminal(a, s) ELSE a

\* The rest of Run and of Producer::Subscribe (lines 1254-1271, 301-305):
\* under the lock, if (++refcount == 1) the connectable is connected, which
\* a synchronous source ends before Connect returns; then
\* state->subscription.Set(what Run returned), which a disposed serial
\* disposes at once.
RCRun(s) ==
    \E sync \in BOOLEAN :
    /\ rc.sub[s].phase = "run"
    /\ LET n == (rc.refcount + 1) % SizeModulus
           a == [rc EXCEPT !.refcount = n,
                           !.connected = IF n = 1 THEN TRUE ELSE @,
                           !.connects = IF n = 1 THEN @ + 1 ELSE @]
           b == IF n = 1 /\ sync /\ ~rc.done
                THEN [RCDispatch(a, 1) EXCEPT !.done = TRUE]
                ELSE a
           c == [b EXCEPT !.sub[s].phase = "active"] IN
       rc' = IF c.sub[s].serialDisposed
             THEN RCRelease(c, s)
             ELSE [c EXCEPT !.sub[s].hasR = TRUE]

\* The source, connected, ends: the subject passes the terminal event on.
RCTerminal ==
    /\ rc.connected
    /\ ~rc.done
    /\ rc' = [RCDispatch(rc, 1) EXCEPT !.done = TRUE]

\* The Disposable Producer::Subscribe returned (lines 309-313):
\* state->sink.Dispose(); state->subscription.Dispose();
RCDispose(s) ==
    /\ rc.sub[s].phase = "active"
    /\ ~rc.sub[s].handle
    /\ rc' = RCSerialDispose(RCSinkDispose([rc EXCEPT !.sub[s].handle = TRUE], s), s)

RCNext ==
    \/ \E s \in RefSubs : RCSubscribe(s) /\ UNCHANGED restRC
    \/ \E s \in RefSubs : RCRun(s) /\ UNCHANGED restRC
    \/ RCTerminal /\ UNCHANGED restRC
    \/ \E s \in RefSubs : RCDispose(s) /\ UNCHANGED restRC

\* ------------------------------------------------------------------
\* ConnectableSubject (lines 826-864)
\* ------------------------------------------------------------------
\* Connect and the Disposables it returns, called by two threads. The source
\* gives a new subscription to every Subscribe.

\* The state after the constructor (lines 843-845): no subscription.
CNInitial(n) ==
    /\ cnSubscription = 0
    /\ cnLock = "free"
    /\ cnTh = [t \in Threads |-> [pc |-> "idle", op |-> "none", h |-> 0]]
    /\ cnLive = {}
    /\ cnMade = 0
    /\ cnHandles = <<>>
    /\ cnLog = <<>>
    /\ cnBudget = n

\* std::unique_lock<std::mutex> guard(lock) in Connect (line 849).
CNConnect(t) ==
    /\ cnTh[t].pc = "idle"
    /\ cnLock = "free"
    /\ cnBudget > 0
    /\ cnBudget' = cnBudget - 1
    /\ cnLock' = t
    /\ cnTh' = [cnTh EXCEPT ![t] = [pc |-> "locked", op |-> "Connect", h |-> 0]]
    /\ UNCHANGED <<cnSubscription, cnLive, cnMade, cnHandles, cnLog>>

\* A mutation of Connect: it subscribes whatever `subscription` holds.
CNConnectAlways(t) ==
    /\ cnTh[t].pc = "locked"
    /\ cnTh[t].op = "Connect"
    /\ cnSubscription' = cnMade + 1
    /\ cnMade' = cnMade + 1
    /\ cnLive' = cnLive \cup {cnMade + 1}
    /\ cnLog' = Append(cnLog, <<"Connect", cnSubscription, cnMade + 1>>)
    /\ cnHandles' = Append(cnHandles, FALSE)
    /\ cnLock' = "free"
    /\ cnTh' = [cnTh EXCEPT ![t].pc = "idle"]
    /\ UNCHANGED cnBudget

\* Connect under the lock (lines 850-855): if (!subscription)
\* subscription.set(source->Subscribe(observer(subject))); a Disposable is
\* returned.
CNConnectBody(t) ==
    /\ cnTh[t].pc = "locked"
    /\ cnTh[t].op = "Connect"
    /\ IF cnSubscription = 0
       THEN /\ cnSubscription' = cnMade + 1
            /\ cnMade' = cnMade + 1
            /\ cnLive' = cnLive \cup {cnMade + 1}
       ELSE UNCHANGED <<cnSubscription, cnMade, cnLive>>
    /\ cnLog' = Append(cnLog, <<"Connect", cnSubscription, cnSubscription'>>)
    /\ cnHandles' = Append(cnHandles, FALSE)
    /\ cnLock' = "free"
    /\ cnTh' = [cnTh EXCEPT ![t].pc = "idle"]
    /\ UNCHANGED cnBudget

\* A Disposable that Connect returned is disposed: its lock (line 857).
CNDispose(t) ==
    \E h \in 1..Len(cnHandles) :
    /\ ~cnHandles[h]
    /\ \A u \in Threads : ~(cnTh[u].pc = "locked" /\ cnTh[u].h = h)
    /\ cnTh[t].pc = "idle"
    /\ cnLock = "free"
    /\ cnBudget > 0
    /\ cnBudget' = cnBudget - 1
    /\ cnLock' = t
    /\ cnTh' = [cnTh EXCEPT ![t] = [pc |-> "locked", op |-> "Dispose", h |-> h]]
    /\ UNCHANGED <<cnSubscription, cnLive, cnMade, cnHandles, cnLog>>

\* The Disposable under the lock (lines 858-862): if (that->subscription)
\* { that->subscription->Dispose(); that->subscription.reset(); }
CNDisposeBody(t) ==
    /\ cnTh[t].pc = "locked"
    /\ cnTh[t].op = "Dispose"
    /\ cnLive' = cnLive \ {cnSubscription}
    /\ cnSubscription' = 0
    /\ cnLog' = Append(cnLog, <<"Dispose", cnSubscription, 0>>)
    /\ cnHandles' = [cnHandles EXCEPT ![cnTh[t].h] = TRUE]
    /\ cnLock' = "free"
    /\ cnTh' = [cnTh EXCEPT ![t].pc = "idle"]
    /\ UNCHANGED <<cnMade, cnBudget>>

CNNext ==
    \/ \E t \in Threads : CNConnect(t) /\ UNCHANGED restCN
    \/ \E t \in Threads : CNConnectBody(t) /\ UNCHANGED restCN
    \/ \E t \in Threads : CNDispose(t) /\ UNCHANGED restCN
    \/ \E t \in Threads : CNDisposeBody(t) /\ UNCHANGED restCN

\* ------------------------------------------------------------------
\* ForEach (lines 907-941)
\* ------------------------------------------------------------------
\* One call of ForEach. The source calls the observer one call after another,
\* either all inside Subscribe on the caller's thread, or from a thread of
\* its own that may run before and after Subscribe returns.
FEModes == {"sync", "async"}

\* The locals of ForEach (lines 913-916) and the observer (917-930).
FEInitial(n) ==
    /\ fePc = "start"
    /\ feMode \in (IF n = 0 THEN {"sync"} ELSE FEModes)
    /\ feLock = "free"
    /\ feDone = FALSE
    /\ feError = 0
    /\ feH = OpIdle
    /\ feCleared = FALSE
    /\ feValues = <<>>
    /\ feSent = <<>>
    /\ feThrown = 0
    /\ feBudget = n

feLocals == <<feLock, feDone, feError>>
feHist == <<feValues, feSent, feThrown>>

\* source->Subscribe(observer) is entered (line 932).
FESubscribe ==
    /\ fePc = "start"
    /\ feBudget > 0
    /\ fePc' = "subscribing"
    /\ UNCHANGED <<feMode, feLocals, feH, feCleared, feHist, feBudget>>

\* The source is running: inside Subscribe, or on its own thread.
FESourceRuns ==
    /\ fePc # "start"
    /\ feMode = "sync" => fePc = "subscribing"
    /\ feH.pc = "idle"
    /\ feBudget > 0

\* The source calls OnNext: CreatedObserver::OnNext (lines 133-139) calls
\* onNext while the handlers are set.
FEOnNext ==
    \E x \in Elements :
    /\ FESourceRuns
    /\ feBudget' = feBudget - 1
    /\ feValues' = IF feCleared THEN feValues ELSE Append(feValues, x)
    /\ UNCHANGED <<fePc, feMode, feLocals, feH, feCleared, feSent, feThrown>>

\* The source calls OnCompleted or OnError: CreatedObserver (lines 140-167)
\* clears the handlers and calls the one it took out.
FEOnTerminal ==
    \E o \in Terminal, e \in Errors :
    /\ FESourceRuns
    /\ feBudget' = feBudget - 1
    /\ feCleared' = TRUE
    /\ feSent' = IF feCleared THEN feSent
                 ELSE IF o = "OnCompleted" THEN <<"completed", 0>> ELSE <<"error", e>>
    /\ feH' = IF feCleared THEN feH ELSE [pc |-> "lock", op |-> o, arg |-> e]
    /\ UNCHANGED <<fePc, feMode, feLocals, feValues, feThrown>>

\* The handler's std::unique_lock<std::mutex> guard(lock) (lines 920, 926).
FEHandlerLock ==
    /\ feH.pc = "lock"
    /\ feLock = "free"
    /\ feLock' = "handler"
    /\ feH' = [feH EXCEPT !.pc = "body"]
    /\ UNCHANGED <<fePc, feMode, feDone, feError, feCleared, feHist, feBudget>>

\* A mutation of the handler's body: nobody is notified.
FEHandlerBodySilent ==
    /\ feH.pc = "body"
    /\ feDone' = TRUE
    /\ feError' = IF feH.op = "OnError" THEN feH.arg ELSE feError
    /\ feLock' = "free"
    /\ feH' = [feH EXCEPT !.pc = "idle"]
    /\ UNCHANGED <<fePc, feMode, feCleared, feHist, feBudget>>

\* The handler's body (lines 921-922, 927-929): done = true; error = e for
\* on error; wake.notify_one(), which ends the wait of a sleeping caller;
\* the guard unlocks.
FEHandlerBody ==
    /\ feH.pc = "body"
    /\ feDone' = TRUE
    /\ feError' = IF feH.op = "OnError" THEN feH.arg ELSE feError
    /\ fePc' = IF fePc = "sleeping" THEN "waiting" ELSE fePc
    /\ feLock' = "free"
    /\ feH' = [feH EXCEPT !.pc = "idle"]
    /\ UNCHANGED <<feMode, feCleared, feHist, feBudget>>

\* source->Subscribe(observer) returns (line 932): a source that emits
\* inside Subscribe has made all its calls by then.
FESubscribeReturn ==
    /\ fePc = "subscribing"
    /\ feMode = "sync" => (feH.pc = "idle" /\ (feBudget = 0 \/ feCleared))
    /\ fePc' = "waiting"
    /\ UNCHANGED <<feMode, feLocals, feH, feCleared, feHist, feBudget>>

\* wake.wait(guard, [&]{ return done; }) (lines 934-937): with the lock, the
\* caller goes on when done is set, and otherwise gives the lock up and
\* sleeps until notified.
FEWait ==
    /\ fePc = "waiting"
    /\ feLock = "free"
    /\ fePc' = IF feDone THEN "check" ELSE "sleeping"
    /\ UNCHANGED <<feMode, feLocals, feH, feCleared, feHist, feBudget>>

\* if (error != std::exception_ptr()) std::rethrow_exception(error)
\* (lines 939-940), else ForEach returns.
FEReturn ==
    /\ fePc = "check"
    /\ fePc' = IF feError # 0 THEN "threw" ELSE "returned"
    /\ feThrown' = feError
    /\ UNCHANGED <<feMode, feLocals, feH, feCleared, feValues, feSent, feBudget>>

\* The steps of the thread that called ForEach, and of the terminal handler.
FECaller == (FESubscribeReturn \/ FEWait \/ FEReturn) /\ UNCHANGED restFE
FEHandler == (FEHandlerLock \/ FEHandlerBody) /\ UNCHANGED restFE

FENext ==
    \/ FESubscribe /\ UNCHANGED restFE
    \/ FEOnNext /\ UNCHANGED restFE
    \/ FEOnTerminal /\ UNCHANGED restFE
    \/ FEHandlerLock /\ UNCHANGED restFE
    \/ FEHandlerBody /\ UNCHANGED restFE
    \/ FESubscribeReturn /\ UNCHANGED restFE
    \/ FEWait /\ UNCHANGED restFE
    \/ FEReturn /\ UNCHANGED restFE

\* ------------------------------------------------------------------
\* detail::Sink (lines 188-264)
\* ------------------------------------------------------------------

\* The state after Sink(observerArg, cancelArg) (lines 199-207) with a
\* downstream observer: cancel is set.
SNInitial(n) ==
    /\ snObserver = "downstream"
    /\ snCancel = TRUE
    /\ snCancelDisposes = 0
    /\ snDisposeRan = FALSE
    /\ snOut = <<>>
    /\ snLate = <<>>
    /\ snInput = <<>>
    /\ snBudget = n

\* A call of that->observer->...: the downstream observer gets the event
\* unless the sink holds the empty Observer by then.
SNDeliver(ev) ==
    /\ snOut' = IF snObserver = "downstream" THEN Append(snOut, ev) ELSE snOut
    /\ snLate' = IF snObserver = "downstream" /\ snDisposeRan
                 THEN Append(snLate, ev) ELSE snLate

\* A mutation of the cancel step: cancel is disposed and kept.
SNCancelKept ==
    /\ snCancelDisposes' = snCancelDisposes + (IF snCancel THEN 1 ELSE 0)
    /\ snCancel' = snCancel

\* if (cancel) { cancel->Dispose(); cancel.reset(); } (lines 213-217,
\* 247-251, 257-261).
SNCancel ==
    /\ snCancelDisposes' = snCancelDisposes + (IF snCancel THEN 1 ELSE 0)
    /\ snCancel' = FALSE

\* Sink::_::OnNext (lines 238-242), under the mutex.
SNOnNext ==
    /\ snBudget > 0
    /\ \E x \in Elements :
        /\ SNDeliver(EventOf("OnNext", x))
        /\ snInput' = Append(snInput, EventOf("OnNext", x))
    /\ snBudget' = snBudget - 1
    /\ UNCHANGED <<snObserver, snCancel, snCancelDisposes, snDisposeRan>>

\* Sink::_::OnCompleted and Sink::_::OnError (lines 243-262), under the
\* mutex: the event is passed on, then cancel is disposed and reset.
SNOnTerminal ==
    /\ snBudget > 0
    /\ \E o \in Terminal :
        /\ SNDeliver(EventOf(o, 0))
        /\ snInput' = Append(snInput, EventOf(o, 0))
    /\ SNCancel
    /\ snBudget' = snBudget - 1
    /\ UNCHANGED <<snObserver, snDisposeRan>>

\* Sink::Dispose (lines 209-218), under the mutex, called directly or
\* through the disposable of GetDisposable (lines 220-229).
SNDispose ==
    /\ snBudget > 0
    /\ snObserver' = "noop"
    /\ SNCancel
    /\ snDisposeRan' = TRUE
    /\ snInput' = Append(snInput, <<"Dispose", 0>>)
    /\ snBudget' = snBudget - 1
    /\ UNCHANGED <<snOut, snLate>>

SNNext ==
    \/ SNOnNext /\ UNCHANGED restSN
    \/ SNOnTerminal /\ UNCHANGED restSN
    \/ SNDispose /\ UNCHANGED restSN

\* ------------------------------------------------------------------
\* CreatedObserver (lines 122-183)
\* ------------------------------------------------------------------

\* CreateObserver(onNext, onCompleted, onError) (lines 170-183): each handler
\* is the function given, or empty (the default of onCompleted and onError).
CRInitial(n) ==
    /\ crOnNext \in (IF n = 0 THEN {TRUE} ELSE BOOLEAN)
    /\ crOnCompleted \in (IF n = 0 THEN {TRUE} ELSE BOOLEAN)
    /\ crOnError \in (IF n = 0 THEN {TRUE} ELSE BOOLEAN)
    /\ crCalls = <<>>
    /\ crTerminated = FALSE
    /\ crLate = <<>>
    /\ crInput = <<>>
    /\ crBudget = n

\* The history of one call: ev is the call, ran tells whether its handler
\* was invoked.
CRRecord(ev, ran) ==
    /\ crInput' = Append(crInput, ev)
    /\ crCalls' = IF ran THEN Append(crCalls, ev) ELSE crCalls
    /\ crLate' = IF ran /\ crTerminated THEN Append(crLate, ev) ELSE crLate
    /\ crBudget' = crBudget - 1

\* CreatedObserver::clear (lines 162-167).
CRClear ==
    /\ crOnNext' = FALSE
    /\ crOnCompleted' = FALSE
    /\ crOnError' = FALSE

\* CreatedObserver::OnNext (lines 133-139).
CROnNext ==
    /\ crBudget > 0
    /\ \E x \in Elements : CRRecord(EventOf("OnNext", x), crOnNext)
    /\ UNCHANGED <<crOnNext, crOnCompleted, crOnError, crTerminated>>

\* CreatedObserver::OnCompleted (lines 140-150): with a handler, the handlers
\* are cleared and the handler is invoked; without one nothing is done.
CROnCompleted ==
    /\ crBudget > 0
    /\ CRRecord(EventOf("OnCompleted", 0), crOnCompleted)
    /\ IF crOnCompleted THEN CRClear
       ELSE UNCHANGED <<crOnNext, crOnCompleted, crOnError>>
    /\ crTerminated' = TRUE

\* CreatedObserver::OnError (lines 151-161), likewise.
CROnError ==
    /\ crBudget > 0
    /\ CRRecord(EventOf("OnError", 0), crOnError)
    /\ IF crOnError THEN CRClear
       ELSE UNCHANGED <<crOnNext, crOnCompleted, crOnError>>
    /\ crTerminated' = TRUE

CRNext ==
    \/ CROnNext /\ UNCHANGED restCR
    \/ CROnCompleted /\ UNCHANGED restCR
    \/ CROnError /\ UNCHANGED restCR

\* ------------------------------------------------------------------
\* Specifications
\* ------------------------------------------------------------------

\* One step of thread t inside the auto-detach observer.
ADThread(t) ==
    \/ ADOnNext(t) /\ UNCHANGED restAD
    \/ ADOnCompleted(t) /\ UNCHANGED restAD
    \/ ADOnError(t) /\ UNCHANGED restAD
    \/ ADNextCall(t) /\ UNCHANGED restAD
    \/ ADSwapRead(t) /\ UNCHANGED restAD
    \/ ADSwapWrite(t) /\ UNCHANGED restAD
    \/ ADFinalCall(t) /\ UNCHANGED restAD

\* Calls made one after another by one caller.
ADSeqNext == ADThread("t1")

\* Calls made by two threads, interleaved at every read and write of `observer`.
ADConcNext == \E t \in Threads : ADThread(t)

\* The state after construction of one auto-detach observer and one observable.
Init ==
    /\ ADInit
    /\ COInit
    /\ SJInitial("Subject", 0)
    /\ SCInitial(<<>>, 0)
    /\ TKInitial(0, 0)
    /\ TUInitial(0)
    /\ SKInitial(0, 0)
    /\ MGInitial(0)
    /\ GBInitial(0)
    /\ WHInitial(0)
    /\ DLInitial(0)
    /\ TRInitial(0)
    /\ DCInitial(0)
    /\ RCInitial(0)
    /\ CNInitial(0)
    /\ FEInitial(0)
    /\ SNInitial(0)
    /\ CRInitial(0)

\* The state after construction of one subject of any kind.
InitSubject ==
    /\ ADInit
    /\ COInit
    /\ \E k \in Kinds : SJInitial(k, MaxOps)
    /\ SCInitial(<<>>, 0)
    /\ TKInitial(0, 0)
    /\ TUInitial(0)
    /\ SKInitial(0, 0)
    /\ MGInitial(0)
    /\ GBInitial(0)
    /\ WHInitial(0)
    /\ DLInitial(0)
    /\ TRInitial(0)
    /\ DCInitial(0)
    /\ RCInitial(0)
    /\ CNInitial(0)
    /\ FEInitial(0)
    /\ SNInitial(0)
    /\ CRInitial(0)

\* The same, for calls made by two threads.
InitSubjectConc ==
    /\ ADInit
    /\ COInit
    /\ \E k \in Kinds : SJInitial(k, MaxConcOps)
    /\ SCInitial(<<>>, 0)
    /\ TKInitial(0, 0)
    /\ TUInitial(0)
    /\ SKInitial(0, 0)
    /\ MGInitial(0)
    /\ GBInitial(0)
    /\ WHInitial(0)
    /\ DLInitial(0)
    /\ TRInitial(0)
    /\ DCInitial(0)
    /\ RCInitial(0)
    /\ CNInitial(0)
    /\ FEInitial(0)
    /\ SNInitial(0)
    /\ CRInitial(0)

\* The state after construction of one Scan observable, with or without seed.
InitScan ==
    /\ ADInit
    /\ COInit
    /\ SJInitial("Subject", 0)
    /\ \E sd \in ScanSeeds : SCInitial(sd, MaxScanOps)
    /\ TKInitial(0, 0)
    /\ TUInitial(0)
    /\ SKInitial(0, 0)
    /\ MGInitial(0)
    /\ GBInitial(0)
    /\ WHInitial(0)
    /\ DLInitial(0)
    /\ TRInitial(0)
    /\ DCInitial(0)
    /\ RCInitial(0)
    /\ CNInitial(0)
    /\ FEInitial(0)
    /\ SNInitial(0)
    /\ CRInitial(0)

\* The state after subscribing to Take(source, n).
InitTake ==
    /\ ADInit
    /\ COInit
    /\ SJInitial("Subject", 0)
    /\ SCInitial(<<>>, 0)
    /\ \E n \in 0..MaxTake : TKInitial(n, MaxTakeOps)
    /\ TUInitial(0)
    /\ SKInitial(0, 0)
    /\ MGInitial(0)
    /\ GBInitial(0)
    /\ WHInitial(0)
    /\ DLInitial(0)
    /\ TRInitial(0)
    /\ DCInitial(0)
    /\ RCInitial(0)
    /\ CNInitial(0)
    /\ FEInitial(0)
    /\ SNInitial(0)
    /\ CRInitial(0)

\* The state after subscribing to TakeUntil(source, terminus).
InitTakeUntil ==
    /\ ADInit
    /\ COInit
    /\ SJInitial("Subject", 0)
    /\ SCInitial(<<>>, 0)
    /\ TKInitial(0, 0)
    /\ TUInitial(MaxTakeUntilOps)
    /\ SKInitial(0, 0)
    /\ MGInitial(0)
    /\ GBInitial(0)
    /\ WHInitial(0)
    /\ DLInitial(0)
    /\ TRInitial(0)
    /\ DCInitial(0)
    /\ RCInitial(0)
    /\ CNInitial(0)
    /\ FEInitial(0)
    /\ SNInitial(0)
    /\ CRInitial(0)

\* The state after subscribing to Skip(source, n).
InitSkip ==
    /\ ADInit
    /\ COInit
    /\ SJInitial("Subject", 0)
    /\ SCInitial(<<>>, 0)
    /\ TKInitial(0, 0)
    /\ TUInitial(0)
    /\ \E n \in 0..MaxSkip : SKInitial(n, MaxSkipOps)
    /\ MGInitial(0)
    /\ GBInitial(0)
    /\ WHInitial(0)
    /\ DLInitial(0)
    /\ TRInitial(0)
    /\ DCInitial(0)
    /\ RCInitial(0)
    /\ CNInitial(0)
    /\ FEInitial(0)
    /\ SNInitial(0)
    /\ CRInitial(0)

\* The state after Merge(firstSource, otherSource) returned.
InitMerge ==
    /\ ADInit
    /\ COInit
    /\ SJInitial("Subject", 0)
    /\ SCInitial(<<>>, 0)
    /\ TKInitial(0, 0)
    /\ TUInitial(0)
    /\ SKInitial(0, 0)
    /\ MGInitial(MaxMergeOps)
    /\ GBInitial(0)
    /\ WHInitial(0)
    /\ DLInitial(0)
    /\ TRInitial(0)
    /\ DCInitial(0)
    /\ RCInitial(0)
    /\ CNInitial(0)
    /\ FEInitial(0)
    /\ SNInitial(0)
    /\ CRInitial(0)

\* The state after subscribing to GroupBy(source, keySelector, valueSelector, less).
InitGroupBy ==
    /\ ADInit
    /\ COInit
    /\ SJInitial("Subject", 0)
    /\ SCInitial(<<>>, 0)
    /\ TKInitial(0, 0)
    /\ TUInitial(0)
    /\ SKInitial(0, 0)
    /\ MGInitial(0)
    /\ GBInitial(MaxGroupByOps)
    /\ WHInitial(0)
    /\ DLInitial(0)
    /\ TRInitial(0)
    /\ DCInitial(0)
    /\ RCInitial(0)
    /\ CNInitial(0)
    /\ FEInitial(0)
    /\ SNInitial(0)
    /\ CRInitial(0)

\* The state after subscribing to Where(source, predicate).
InitWhere ==
    /\ ADInit
    /\ COInit
    /\ SJInitial("Subject", 0)
    /\ SCInitial(<<>>, 0)
    /\ TKInitial(0, 0)
    /\ TUInitial(0)
    /\ SKInitial(0, 0)
    /\ MGInitial(0)
    /\ GBInitial(0)
    /\ WHInitial(MaxWhereOps)
    /\ DLInitial(0)
    /\ TRInitial(0)
    /\ DCInitial(0)
    /\ RCInitial(0)
    /\ CNInitial(0)
    /\ FEInitial(0)
    /\ SNInitial(0)
    /\ CRInitial(0)

\* The state after subscribing to Delay(source, due, scheduler).
InitDelay ==
    /\ ADInit
    /\ COInit
    /\ SJInitial("Subject", 0)
    /\ SCInitial(<<>>, 0)
    /\ TKInitial(0, 0)
    /\ TUInitial(0)
    /\ SKInitial(0, 0)
    /\ MGInitial(0)
    /\ GBInitial(0)
    /\ WHInitial(0)
    /\ DLInitial(MaxDelayOps)
    /\ TRInitial(0)
    /\ DCInitial(0)
    /\ RCInitial(0)
    /\ CNInitial(0)
    /\ FEInitial(0)
    /\ SNInitial(0)
    /\ CRInitial(0)

\* The state after subscribing to Throttle(source, due, scheduler).
InitThrottle ==
    /\ ADInit
    /\ COInit
    /\ SJInitial("Subject", 0)
    /\ SCInitial(<<>>, 0)
    /\ TKInitial(0, 0)
    /\ TUInitial(0)
    /\ SKInitial(0, 0)
    /\ MGInitial(0)
    /\ GBInitial(0)
    /\ WHInitial(0)
    /\ DLInitial(0)
    /\ TRInitial(MaxThrottleOps)
    /\ DCInitial(0)
    /\ RCInitial(0)
    /\ CNInitial(0)
    /\ FEInitial(0)
    /\ SNInitial(0)
    /\ CRInitial(0)

\* The state after subscribing to DistinctUntilChanged(source).
InitDistinct ==
    /\ ADInit
    /\ COInit
    /\ SJInitial("Subject", 0)
    /\ SCInitial(<<>>, 0)
    /\ TKInitial(0, 0)
    /\ TUInitial(0)
    /\ SKInitial(0, 0)
    /\ MGInitial(0)
    /\ GBInitial(0)
    /\ WHInitial(0)
    /\ DLInitial(0)
    /\ TRInitial(0)
    /\ DCInitial(MaxDistinctOps)
    /\ RCInitial(0)
    /\ CNInitial(0)
    /\ FEInitial(0)
    /\ SNInitial(0)
    /\ CRInitial(0)

\* The state after RefCount(connectable) returned.
InitRefCount ==
    /\ ADInit
    /\ COInit
    /\ SJInitial("Subject", 0)
    /\ SCInitial(<<>>, 0)
    /\ TKInitial(0, 0)
    /\ TUInitial(0)
    /\ SKInitial(0, 0)
    /\ MGInitial(0)
    /\ GBInitial(0)
    /\ WHInitial(0)
    /\ DLInitial(0)
    /\ TRInitial(0)
    /\ DCInitial(0)
    /\ RCInitial(MaxRefSubs)
    /\ CNInitial(0)
    /\ FEInitial(0)
    /\ SNInitial(0)
    /\ CRInitial(0)

\* The state after construction of one ConnectableSubject.
InitConnectable ==
    /\ ADInit
    /\ COInit
    /\ SJInitial("Subject", 0)
    /\ SCInitial(<<>>, 0)
    /\ TKInitial(0, 0)
    /\ TUInitial(0)
    /\ SKInitial(0, 0)
    /\ MGInitial(0)
    /\ GBInitial(0)
    /\ WHInitial(0)
    /\ DLInitial(0)
    /\ TRInitial(0)
    /\ DCInitial(0)
    /\ RCInitial(0)
    /\ CNInitial(MaxConnectOps)
    /\ FEInitial(0)
    /\ SNInitial(0)
    /\ CRInitial(0)

\* The state at the call of ForEach(source, onNext).
InitForEach ==
    /\ ADInit
    /\ COInit
    /\ SJInitial("Subject", 0)
    /\ SCInitial(<<>>, 0)
    /\ TKInitial(0, 0)
    /\ TUInitial(0)
    /\ SKInitial(0, 0)
    /\ MGInitial(0)
    /\ GBInitial(0)
    /\ WHInitial(0)
    /\ DLInitial(0)
    /\ TRInitial(0)
    /\ DCInitial(0)
    /\ RCInitial(0)
    /\ CNInitial(0)
    /\ FEInitial(MaxForEachOps)
    /\ SNInitial(0)
    /\ CRInitial(0)

\* The state after construction of one Sink over a downstream observer.
InitSink ==
    /\ ADInit
    /\ COInit
    /\ SJInitial("Subject", 0)
    /\ SCInitial(<<>>, 0)
    /\ TKInitial(0, 0)
    /\ TUInitial(0)
    /\ SKInitial(0, 0)
    /\ MGInitial(0)
    /\ GBInitial(0)
    /\ WHInitial(0)
    /\ DLInitial(0)
    /\ TRInitial(0)
    /\ DCInitial(0)
    /\ RCInitial(0)
    /\ CNInitial(0)
    /\ FEInitial(0)
    /\ SNInitial(MaxSinkOps)
    /\ CRInitial(0)

\* The state after CreateObserver returned, with any of the handlers absent.
InitCreatedObserver ==
    /\ ADInit
    /\ COInit
    /\ SJInitial("Subject", 0)
    /\ SCInitial(<<>>, 0)
    /\ TKInitial(0, 0)
    /\ TUInitial(0)
    /\ SKInitial(0, 0)
    /\ MGInitial(0)
    /\ GBInitial(0)
    /\ WHInitial(0)
    /\ DLInitial(0)
    /\ TRInitial(0)
    /\ DCInitial(0)
    /\ RCInitial(0)
    /\ CNInitial(0)
    /\ FEInitial(0)
    /\ SNInitial(0)
    /\ CRInitial(MaxObserverOps)

SpecAutoDetach == Init /\ [][ADSeqNext]_vars

SpecAutoDetachConc == Init /\ [][ADConcNext]_vars

SpecCreate == Init /\ [][CONext]_vars

SpecSubject == InitSubject /\ [][SJSeqNext]_vars

SpecSubjectConc == InitSubjectConc /\ [][SJConcNext]_vars

SpecScan == InitScan /\ [][SCSeqNext]_vars

SpecScanConc == InitScan /\ [][SCConcNext]_vars

SpecTake == InitTake /\ [][TKSeqNext]_vars

SpecTakeConc == InitTake /\ [][TKConcNext]_vars

SpecTakeUntil == InitTakeUntil /\ [][TUNext]_vars

SpecSkip == InitSkip /\ [][SKNext]_vars

SpecMerge == InitMerge /\ [][MGNext]_vars

SpecGroupBy == InitGroupBy /\ [][GBNext]_vars

SpecWhere == InitWhere /\ [][WHNext]_vars

SpecDelay == InitDelay /\ [][DLNext]_vars

SpecThrottle == InitThrottle /\ [][TRNext]_vars

SpecDistinct == InitDistinct /\ [][DCNext]_vars

SpecRefCount == InitRefCount /\ [][RCNext]_vars

SpecConnectable == InitConnectable /\ [][CNNext]_vars

\* A thread that can take a step takes one in the end: the caller of ForEach
\* and the thread running the terminal handler are not held up for ever.
SpecForEach ==
    InitForEach /\ [][FENext]_vars /\ WF_vars(FECaller) /\ WF_vars(FEHandler)

SpecSink == InitSink /\ [][SNNext]_vars

SpecCreatedObserver == InitCreatedObserver /\ [][CRNext]_vars

\* ------------------------------------------------------------------
\* Properties
\* ------------------------------------------------------------------

\* The last event an observer record holds.
Last(q) == q[Len(q)]

\* C1: for calls made one after another on a CreatedAutoDetachObserver, the
\* events that reach the inner observer match next* (completed | error)?:
\* every event but the last is a next, so nothing follows a terminal event.
C1_DeliveredGrammar ==
    \A i \in 1..Len(delivered) : i < Len(delivered) => delivered[i][1] = "next"

\* A value and a terminal event were delivered and a later OnNext was dropped.
C1_Witness ==
    /\ Len(delivered) >= 2
    /\ Last(delivered)[1] \in {"completed", "error"}
    /\ pc["t1"] = "idle"
    /\ op["t1"] = "OnNext"
    /\ ~hadObserver["t1"]

\* C2: when OnCompleted or OnError finds an inner observer and the inner
\* callback returns normally, the SerialDisposable is disposed by the time
\* the call returns.
C2_TerminalDisposes ==
    (/\ pc["t1"] = "idle"
     /\ op["t1"] \in Terminal
     /\ hadObserver["t1"]
     /\ ~threw["t1"]) => disposable

\* C3: a call whose inner callback threw has disposed the SerialDisposable
\* when the exception leaves the wrapper; an OnNext whose callback returned
\* normally leaves the SerialDisposable as it found it.
C3_DisposedIffThrown ==
    (pc["t1"] = "idle" /\ op["t1"] # "none" /\ hadObserver["t1"]) =>
        /\ threw["t1"] => disposable
        /\ (op["t1"] = "OnNext" /\ ~threw["t1"]) => disposable = dispAtCall["t1"]

\* After an earlier delivery, the callback of an OnNext threw out of a wrapper
\* that was undisposed at the call, and the wrapper is disposed.
C3_Witness ==
    /\ pc["t1"] = "idle"
    /\ hadObserver["t1"]
    /\ threw["t1"]
    /\ op["t1"] = "OnNext"
    /\ ~dispAtCall["t1"]
    /\ disposable
    /\ Len(delivered) >= 2

\* C4: with two threads inside the wrapper, the inner observer receives at
\* most one terminal event, and no OnNext call that started after a terminal
\* event was delivered has reached the inner observer.
C4_OneTerminalConcurrent ==
    /\ Cardinality({i \in 1..Len(delivered) : delivered[i][1] # "next"}) <= 1
    /\ \A t \in Threads :
          (pc[t] = "idle" /\ op[t] = "OnNext" /\ hadObserver[t]) => ~lateStart[t]

\* C5: Subscribe of a created observable never lets the exception of the
\* user subscribe function out, on the direct and on the scheduled path;
\* once Subscribe (or the scheduled lambda) is over, the exception has been
\* handed exactly once to OnError of the auto-detach observer, as its last
\* call, and reached the inner observer if that was still attached.
C5_SubscribeRoutesException ==
    /\ escaped # "subscribe"
    /\ subPc = "done" =>
          /\ catchOnError = (IF fnThrew THEN 1 ELSE 0)
          /\ fnThrew => op["t1"] = "OnError"
          /\ (fnThrew /\ hadObserver["t1"]) => Last(delivered) = <<"error", 0>>

\* On the scheduled path the subscribe function emitted a value and threw.
C5_Witness ==
    /\ subPc = "done"
    /\ subPath = "scheduled"
    /\ fnThrew
    /\ Len(delivered) >= 2
    /\ Last(delivered) = <<"error", 0>>

\* C6: the state of a subject is monotonic: once Completed or Error, no
\* later call changes the state or the stored error.
C6_StateMonotonic ==
    [][IF state \in {"Completed", "Error"}
       THEN state' = state /\ error' = error
       ELSE TRUE]_vars

\* C7: for calls made one after another on a publish Subject, an observer
\* that attached has received exactly the values published while it was
\* attached, in order, then the terminal event if it was still attached.
C7_PublishMemoryless ==
    (kind \in PublishKinds /\ th["t1"].pc = "idle") =>
        \A o \in Obs : ret[o] = "d" => received[o] = expected[o]

\* A later subscriber missed a value the earlier one got; both got the
\* later value and completed.
C7_Witness ==
    /\ kind = "Subject"
    /\ th["t1"].pc = "idle"
    /\ Len(received[1]) = 3
    /\ Len(received[2]) = 2
    /\ received[1][1] # received[1][2]
    /\ received[2][1] = received[1][2]
    /\ Last(received[1]) = <<"completed", 0>>
    /\ Last(received[2]) = <<"completed", 0>>

\* C8: Subscribe on a publish Subject (or GroupedSubject) that is Completed
\* or Error has, when it returns, given the observer exactly the terminal
\* event of that state, returned the empty disposable and left the observer
\* out of the table; in state Forwarding it returns d.
C8_LateSubscribeTerminal ==
    kind \in PublishKinds =>
        \A o \in Obs :
            /\ ret[o] = "Empty" =>
                  /\ stateAtSub[o] \in {"Completed", "Error"}
                  /\ received[o] =
                        IF stateAtSub[o] = "Completed"
                        THEN << <<"completed", 0>> >>
                        ELSE << <<"error", errorAtSub[o]>> >>
                  /\ o \notin Members(observers)
            /\ ret[o] = "d" => stateAtSub[o] = "Forwarding"

\* A GroupedSubject in state Error returned Empty to a late subscriber.
C8_Witness ==
    /\ kind = "Grouped"
    /\ \E o \in Obs :
          /\ ret[o] = "Empty"
          /\ stateAtSub[o] = "Error"
          /\ Len(received[o]) = 1

\* C9: no subject operation calls an observer while it holds the lock.
C9_NoCallbackUnderLock == ~cbUnderLock

\* C10: the dispatch loop of an emission calls only observers that were in
\* the table when its snapshot was taken, each at most once, and all of
\* them by the time it ends.
C10_SnapshotDispatch ==
    \A t \in Threads :
        LET v == th[t].visited IN
        /\ \A i \in 1..Len(v) : v[i] \in th[t].snap
        /\ \A i, j \in 1..Len(v) : i # j => v[i] # v[j]
        /\ (th[t].pc = "idle" /\ th[t].op \in {"OnNext", "OnCompleted", "OnError"})
              => {v[i] : i \in 1..Len(v)} = th[t].snap

\* An emission is past its first callback while the table holds an observer
\* added by the other thread after the snapshot.
C10_Witness ==
    \E t \in Threads :
        /\ th[t].pc = "dispatch"
        /\ th[t].op = "OnNext"
        /\ Len(th[t].visited) >= 1
        /\ \E o \in Members(observers) : o \notin th[t].snap

C12_ReplayFirst ==
    kind = "Behavior" =>
        \A o \in Obs :
            (stateAtSub[o] = "Forwarding" /\ termAtSub[o] = <<>> /\ received[o] # <<>>)
                => received[o][1] = <<"next", latestAtSub[o][1]>>

\* C13: for calls made one after another on a BehaviorSubject, an observer
\* that attached before any terminal event has received the latest value and
\* then everything published since; one that subscribed after completion
\* the latest value and completed; one that subscribed after an error only
\* the error.
C13_BehaviorSequences ==
    (kind = "Behavior" /\ th["t1"].pc = "idle") =>
        \A o \in Obs : ret[o] # "none" =>
            received[o] =
                IF termAtSub[o] = <<>>
                THEN << <<"next", latestAtSub[o][1]>> >> \o expected[o]
                ELSE IF termAtSub[o][1][1] = "completed"
                THEN << <<"next", latestAtSub[o][1]>>, <<"completed", 0>> >>
                ELSE << termAtSub[o][1] >>

\* What an AsyncSubject owes an observer once the first terminal event ft came
\* with l the last value published before it.
AsyncSequence(l, ft) ==
    IF ft[1][1] = "completed"
    THEN (IF l = <<>> THEN <<>> ELSE << <<"next", l[1]>> >>) \o << <<"completed", 0>> >>
    ELSE << ft[1] >>

\* C14: for calls made one after another on an AsyncSubject, no observer
\* receives anything before the first terminal event; after it, every
\* observer still attached and every observer that subscribed later has
\* received the last value (if any) then completed, or only the error.
C14_AsyncSequences ==
    (kind = "Async" /\ th["t1"].pc = "idle") =>
        \A o \in Obs :
            /\ firstTerminal = <<>> => received[o] = <<>>
            /\ (firstTerminal # <<>> /\ ret[o] # "none" /\ ~disposedD[o])
                  => received[o] = AsyncSequence(latest, firstTerminal)
            /\ (firstTerminal # <<>> /\ disposedD[o])
                  => received[o] \in {<<>>, AsyncSequence(latest, firstTerminal)}

\* The elements of the calls of OnNext that come before any other call.
RECURSIVE LeadingNexts(_)
LeadingNexts(q) ==
    IF q = <<>> \/ q[1][1] # "next" THEN <<>>
    ELSE <<q[1][2][1]>> \o LeadingNexts(Tail(q))

\* The events next f(a, x1), next f(f(a, x1), x2), ... for the elements xs,
\* a value being written as the sequence of what went into it.
RECURSIVE RunningFold(_, _)
RunningFold(a, xs) ==
    IF xs = <<>> THEN <<>>
    ELSE << <<"next", Append(a, xs[1])>> >> \o RunningFold(Append(a, xs[1]), Tail(xs))

\* The call that follows the leading calls of OnNext is of kind c.
FirstOther(c) ==
    LET k == Len(LeadingNexts(scInput)) IN
    Len(scInput) > k /\ scInput[k + 1][1] = c

\* C15: Scan with a seed s, over upstream calls OnNext(x1) .. OnNext(xk),
\* k >= 1, made one after another and followed by OnCompleted, gives
\* downstream f(s, x1), f(f(s, x1), x2), ... and then completed; downstream
\* is completed only if upstream called OnCompleted.
C15_ScanSeededFold ==
    LET xs == LeadingNexts(scInput) IN
    (scSeed # <<>> /\ scTh["t1"].pc = "idle") =>
        /\ (Len(xs) >= 1 /\ Len(scInput) = Len(xs))
              => scOut = RunningFold(scSeed[1], xs)
        /\ (Len(xs) >= 1 /\ FirstOther("completed"))
              => scOut = RunningFold(scSeed[1], xs) \o << <<"completed", <<>> >> >>
        /\ (\E i \in 1..Len(scOut) : scOut[i][1] = "completed")
              => \E j \in 1..Len(scInput) : scInput[j][1] = "completed"

\* Two values were folded from the seed and the upstream completed.
C15_Witness ==
    /\ scTh["t1"].pc = "idle"
    /\ scSeed # <<>>
    /\ scOut = << <<"next", <<0, 1>> >>, <<"next", <<0, 1, 2>> >>, <<"completed", <<>> >> >>

\* C16: Scan without a seed gives downstream the first value as it came and
\* then accumulator(previous output, x) for each later x, and only completed
\* when the upstream completes without a value; Scan with a seed gives the
\* seed once and then completed when the upstream completes without a value.
C16_ScanUnseededAndEmpty ==
    LET xs == LeadingNexts(scInput) IN
    scTh["t1"].pc = "idle" =>
        /\ (scSeed = <<>> /\ Len(scInput) = Len(xs))
              => scOut = RunningFold(<<>>, xs)
        /\ (scSeed = <<>> /\ FirstOther("completed"))
              => scOut = RunningFold(<<>>, xs) \o << <<"completed", <<>> >> >>
        /\ (scSeed # <<>> /\ xs = <<>> /\ FirstOther("completed"))
              => scOut = << <<"next", scSeed[1]>>, <<"completed", <<>> >> >>

\* The upstream of a seeded Scan completed without a value and was called
\* again after that.
C16_Witness ==
    /\ scTh["t1"].pc = "idle"
    /\ scSeed # <<>>
    /\ Len(scInput) >= 2
    /\ scInput[1][1] = "completed"
    /\ Len(scOut) = 2

\* C17: when the accumulator throws on an element, downstream gets the
\* values folded before it, then one error and nothing for that element; the
\* sink is disposed, its cancel disposable with it, and no later upstream
\* call reaches downstream.
C17_ScanAccumulatorThrows ==
    LET xs == LeadingNexts(scInput) IN
    (scTh["t1"].pc = "idle" /\ FirstOther("throw")) =>
        /\ scOut = RunningFold(IF scSeed = <<>> THEN <<>> ELSE scSeed[1], xs)
                      \o << <<"error", <<0>> >> >>
        /\ scObserver = "noop"
        /\ ~scCancel
        /\ scCancelDisposed

\* The accumulator threw on the second element and the upstream called the
\* sink once more.
C17_Witness ==
    /\ scTh["t1"].pc = "idle"
    /\ Len(scInput) = 3
    /\ scInput[1][1] = "next"
    /\ scInput[2][1] = "throw"
    /\ scInput[3][1] \in {"next", "completed", "error"}
    /\ Len(scOut) = 2

\* C18: when two threads call OnNext on one Scan subscription, no downstream
\* callback starts while another is running, and the values given downstream
\* are the running fold of the elements in some order: the i-th value holds
\* i elements and extends the one before it.
C18_ScanSerialized ==
    (\A j \in 1..Len(scInput) : scInput[j][1] = "next") =>
        /\ ~scOverlap
        /\ \A i \in 1..Len(scOut) :
              LET a == scOut[i][2]
                  base == IF scSeed = <<>> THEN 0 ELSE 1 IN
              /\ Len(a) = base + i
              /\ i > 1 => SubSeq(a, 1, Len(a) - 1) = scOut[i - 1][2]

\* The first m elements of the calls of OnNext in q, as downstream events.
RECURSIVE FirstValues(_, _)
FirstValues(q, m) ==
    IF q = <<>> \/ m = 0 THEN <<>>
    ELSE IF q[1][1] = "next"
    THEN << q[1] >> \o FirstValues(Tail(q), m - 1)
    ELSE FirstValues(Tail(q), m)

\* C19: for every n >= 0, when the upstream has made k calls of OnNext one
\* after another and then OnCompleted, downstream has been given the first
\* min(n, k) values in order and then completed.
C19_TakeFirstThenCompleted ==
    LET k == Len(tkInput) - 1 IN
    (/\ TKQuiet
     /\ ~crashed
     /\ Len(tkInput) >= 1
     /\ Last(tkInput)[1] = "completed"
     /\ \A i \in 1..k : tkInput[i][1] = "next")
        => delivered = FirstValues(tkInput, IF tkN < k THEN tkN ELSE k)
                          \o << <<"completed", 0>> >>

C21_TriggerErrorSurfaces ==
    tuTrigError => \E i \in 1..Len(delivered) : delivered[i][1] = "error"

\* What TakeUntil owes downstream for the calls q of source and trigger:
\* source values while no trigger event has come, then completed at the first
\* source value or source completion after one; a source error is passed on.
RECURSIVE TakeUntilOwes(_, _, _)
TakeUntilOwes(q, live, done) ==
    IF q = <<>> THEN <<>>
    ELSE IF q[1][1] = "trigger" THEN TakeUntilOwes(Tail(q), FALSE, done)
    ELSE IF done THEN TakeUntilOwes(Tail(q), live, done)
    ELSE IF q[1][1] = "next" /\ live
    THEN << q[1] >> \o TakeUntilOwes(Tail(q), live, FALSE)
    ELSE IF q[1][1] = "error"
    THEN << <<"error", 0>> >> \o TakeUntilOwes(Tail(q), live, TRUE)
    ELSE << <<"completed", 0>> >> \o TakeUntilOwes(Tail(q), live, TRUE)

\* C22: every source value that arrives before any trigger event is
\* forwarded; after a trigger event (next, completed or error) no source
\* value is forwarded, and the first source value or source completion after
\* it gives downstream completed, once.
C22_TakeUntilGate ==
    (tuTh.pc = "idle" /\ ~crashed) =>
        delivered = TakeUntilOwes(tuInput, TRUE, FALSE)

\* One value passed, the trigger fired, the next value completed downstream
\* and the source's own completion added nothing.
C22_Witness ==
    /\ tuTh.pc = "idle"
    /\ Len(tuInput) = 4
    /\ tuInput[1][1] = "next"
    /\ tuInput[2][1] = "trigger"
    /\ tuInput[3][1] = "next"
    /\ tuInput[4][1] = "completed"
    /\ delivered = << tuInput[1], <<"completed", 0>> >>
    /\ tuCd

\* The calls of OnNext in q, as downstream events.
RECURSIVE NextsOf(_)
NextsOf(q) ==
    IF q = <<>> THEN <<>>
    ELSE IF q[1][1] = "next" THEN << q[1] >> \o NextsOf(Tail(q))
    ELSE NextsOf(Tail(q))

\* C23: for every n >= 0, after upstream calls made one after another,
\* downstream has been given the upstream's values but the first min(n, k),
\* in order, and then the upstream's terminal event if it made one.
C23_SkipDropsFirstN ==
    LET xs == NextsOf(skInput)
        k == Len(xs)
        rest == IF skN >= k THEN <<>> ELSE SubSeq(xs, skN + 1, k) IN
    (skTh.pc = "idle" /\ ~crashed) =>
        delivered = rest \o (IF skSrcDone THEN << Last(skInput) >> ELSE <<>>)

\* The events of q that are values of source i.
RECURSIVE FromSource(_, _)
FromSource(q, i) ==
    IF q = <<>> THEN <<>>
    ELSE IF q[1][1] = "next" /\ q[1][2] \div 10 = i
    THEN << q[1][2] >> \o FromSource(Tail(q), i)
    ELSE FromSource(Tail(q), i)

\* C24: every subscription to a Merge observable has been given completed
\* exactly when all of its own sources have completed, also a later
\* subscription and one of two that are active together.
C24_MergeCompletesWithItsSources ==
    \A s \in MergeSubs :
        (\E j \in 1..Len(mgDelivered[s]) : mgDelivered[s][j][1] = "completed")
            <=> (\A i \in MergeSources : mgSrc[s][i] = "completed")

\* C25: once all sources of a subscription have completed without error,
\* its downstream has been given each source's values in that source's
\* order, nothing else, and then completed.
C25_MergeKeepsValues ==
    \A s \in MergeSubs :
        (\A i \in MergeSources : mgSrc[s][i] = "completed") =>
            LET d == mgDelivered[s] IN
            /\ \A i \in MergeSources : FromSource(d, i) = mgSent[s][i]
            /\ Len(d) = 1 + Len(mgSent[s][1]) + Len(mgSent[s][2])
            /\ Last(d) = <<"completed", 0>>

\* C26: once a source of a subscription has given an error, its downstream
\* has been given the error as its last and only terminal event, and the
\* subscription's cd is disposed.
C26_MergeErrorEnds ==
    \A s \in MergeSubs :
        (\E i \in MergeSources : mgSrc[s][i] = "error") =>
            LET d == mgDelivered[s] IN
            /\ Len(d) >= 1
            /\ Last(d) = <<"error", 0>>
            /\ \A j \in 1..(Len(d) - 1) : d[j][1] = "next"
            /\ mgCd[s]

\* The values of the next events of q whose element has key k.
RECURSIVE ValuesOfKey(_, _)
ValuesOfKey(q, k) ==
    IF q = <<>> THEN <<>>
    ELSE IF q[1][1] = "next" /\ q[1][2] % 2 = k
    THEN << <<"next", 10 * q[1][2]>> >> \o ValuesOfKey(Tail(q), k)
    ELSE ValuesOfKey(Tail(q), k)

\* The keys of the next events of q in the order of their first occurrence.
RECURSIVE FirstKeys(_, _)
FirstKeys(q, seen) ==
    IF q = <<>> THEN <<>>
    ELSE IF q[1][1] = "next" /\ (q[1][2] % 2) \notin seen
    THEN << <<"next", q[1][2] % 2>> >> \o FirstKeys(Tail(q), seen \cup {q[1][2] % 2})
    ELSE FirstKeys(Tail(q), seen)

\* The events of q that are not terminal.
RECURSIVE NextEvents(_)
NextEvents(q) ==
    IF q = <<>> THEN <<>>
    ELSE IF q[1][1] = "next" THEN << q[1] >> \o NextEvents(Tail(q))
    ELSE NextEvents(Tail(q))

C29_WhereThrowTerminates ==
    (whThrown /\ whTh.pc = "idle" /\ ~crashed) =>
        /\ delivered # <<>>
        /\ Last(delivered) = <<"error", 0>>
        /\ \A j \in 1..(Len(delivered) - 1) : delivered[j][1] = "next"
        /\ disposable
        /\ ~whLateEval

\* The events of q that are not an error.
RECURSIVE NonErrors(_)
NonErrors(q) ==
    IF q = <<>> THEN <<>>
    ELSE IF q[1][1] = "error" THEN NonErrors(Tail(q))
    ELSE << q[1] >> \o NonErrors(Tail(q))

\* a can be had from b by leaving entries out.
RECURSIVE IsSubsequence(_, _)
IsSubsequence(a, b) ==
    IF a = <<>> THEN TRUE
    ELSE IF b = <<>> THEN FALSE
    ELSE IF a[1] = b[1] THEN IsSubsequence(Tail(a), Tail(b))
    ELSE IsSubsequence(a, Tail(b))

\* C30: an upstream error that finds the subscription uncancelled and the
\* downstream unfinished has reached downstream when the upstream's OnError
\* call is over, and no callback was scheduled for it; every value and
\* completed that reached downstream came from a callback the scheduler ran,
\* and none from a callback run after the error was delivered.
C30_DelayErrorOvertakes ==
    /\ (dlErrOpen /\ dlTh.pc = "idle" /\ ~crashed) => ErrorDelivered
    /\ \A j \in 1..Len(dlQueue) : dlQueue[j][1] # "error"
    /\ Len(dlQueue) + Len(dlEarly) + dlLate = Len(NonErrors(dlInput))
    /\ IsSubsequence(NonErrors(delivered), dlEarly)

\* C30 witness: values 1 and 2 were scheduled, the callback of 1 ran, the
\* error came and went through, the callback of 2 ran afterwards.
C30_Witness ==
    /\ dlInput = << <<"next", 1>>, <<"next", 2>>, <<"error", 0>> >>
    /\ dlTh.pc = "idle" /\ pc["t2"] = "idle" /\ ~crashed
    /\ delivered = << <<"next", 1>>, <<"error", 0>> >>
    /\ dlQueue = <<>> /\ dlLate = 1 /\ ~disposable

\* C31: a callback of Throttle passes its value on exactly when its version
\* is still the current one, so also after a callback of an older version
\* has run.
C31_ThrottleEmitsCurrent ==
    \A j \in 1..Len(trFires) : trFires[j][3] <=> (trFires[j][1] = trFires[j][2])

\* How many events of q are values.
RECURSIVE CountNexts(_)
CountNexts(q) ==
    IF q = <<>> THEN 0
    ELSE (IF q[1][1] = "next" THEN 1 ELSE 0) + CountNexts(Tail(q))

\* C32: once the terminal call of Throttle's upstream is over, downstream has
\* the values the callbacks passed on, then, after completed, the value that
\* was stored and not yet emitted and completed, or, after an error, only the
\* error; no callback run after the upstream ended passed a value on.
C32_ThrottleFlushesOnEnd ==
    (trSrcDone /\ trTh.pc = "idle" /\ trCb.pc = "idle" /\ ~crashed) =>
        LET d == delivered
            n == Len(delivered) IN
        /\ n >= 1
        /\ d[n] = Last(trInput)
        /\ \A j \in 1..(n - 1) : d[j][1] = "next"
        /\ CountNexts(d) = trEmits + (IF trOwed # 0 THEN 1 ELSE 0)
        /\ trOwed # 0 => (n >= 2 /\ d[n - 1] = <<"next", trOwed>>)
        /\ \A j \in 1..Len(trFires) : trFires[j][4] => ~trFires[j][3]

\* The events of q without each value that equals the value kept before it;
\* prev is the last value kept (0: none).
RECURSIVE WithoutRepeats(_, _)
WithoutRepeats(q, prev) ==
    IF q = <<>> THEN <<>>
    ELSE IF q[1][1] = "next" /\ q[1][2] = prev
    THEN WithoutRepeats(Tail(q), prev)
    ELSE << q[1] >> \o WithoutRepeats(Tail(q), q[1][2])

\* C33: for upstream calls made one after another and a downstream observer
\* that did not throw, once a call is over downstream has the upstream's
\* events without each value equal to the value forwarded before it, so no
\* two adjacent downstream values are equal.
C33_DistinctUntilChanged ==
    (dcTh.pc = "idle" /\ ~dcThrew /\ ~crashed) =>
        /\ delivered = WithoutRepeats(dcInput, 0)
        /\ \A j \in 1..(Len(delivered) - 1) :
              delivered[j + 1][1] = "next" => delivered[j + 1] # delivered[j]

\* C33 witness: 1, 2, 2, 1 came in and 1, 2, 1 went out.
C33_Witness ==
    /\ dcTh.pc = "idle" /\ ~dcThrew /\ ~crashed
    /\ dcInput = << <<"next", 1>>, <<"next", 2>>, <<"next", 2>>, <<"next", 1>> >>
    /\ delivered = << <<"next", 1>>, <<"next", 2>>, <<"next", 1>> >>

\* C34: refcount is the number of subscriptions counted and not yet released,
\* so it never underflows; every subscription releases at most once, and has
\* released once it got a terminal event or was disposed, or both; the
\* connectable is connected exactly while the count is above 0, each Connect
\* matched by at most one disposal of the connection.
C34_RefCountBalanced ==
    /\ \A s \in RefSubs : rc.sub[s].decs <= 1
    /\ rc.refcount =
          Cardinality({s \in RefSubs : rc.sub[s].phase = "active" /\ rc.sub[s].decs = 0})
    /\ \A s \in RefSubs :
          (rc.sub[s].phase = "active" /\ (rc.sub[s].got > 0 \/ rc.sub[s].handle))
              => rc.sub[s].decs = 1
    /\ rc.connected <=> rc.refcount > 0
    /\ rc.connects = rc.disconnects + (IF rc.connected THEN 1 ELSE 0)

\* C34 witness: the first subscription got the terminal event and was then
\* disposed as well, a second one came and went, and the count is back at 0
\* after two connections.
C34_Witness ==
    /\ rc.sub[1].got = 1 /\ rc.sub[1].handle /\ rc.sub[1].decs = 1
    /\ rc.sub[2].phase = "active" /\ rc.sub[2].decs = 1
    /\ rc.refcount = 0 /\ rc.connects = 2 /\ rc.disconnects = 2

\* C35: a ConnectableSubject has at most one undisposed subscription to the
\* source, the one `subscription` holds; a Connect subscribed exactly when
\* there was none, and left the one there was in place; after a handle was
\* disposed there is none.
C35_OneConnection ==
    /\ Cardinality(cnLive) <= 1
    /\ cnLive = (IF cnSubscription = 0 THEN {} ELSE {cnSubscription})
    /\ \A j \in 1..Len(cnLog) :
          IF cnLog[j][1] = "Connect"
          THEN /\ cnLog[j][3] # 0
               /\ cnLog[j][2] # 0 => cnLog[j][3] = cnLog[j][2]
               /\ cnLog[j][2] = 0 =>
                     cnLog[j][3] \notin {cnLog[i][3] : i \in 1..(j - 1)}
          ELSE cnLog[j][3] = 0

\* C35 witness: Connect subscribed, a second Connect did not, a handle was
\* disposed, and a third Connect subscribed anew.
C35_Witness ==
    /\ Len(cnLog) = 4
    /\ cnLog[1] = <<"Connect", 0, 1>>
    /\ cnLog[2] = <<"Connect", 1, 1>>
    /\ cnLog[3] = <<"Dispose", 1, 0>>
    /\ cnLog[4] = <<"Connect", 0, 2>>
    /\ cnLive = {2}

\* ForEach has left, and it left as the terminal event says.
FELeftRight ==
    /\ feSent # <<>>
    /\ feDone
    /\ fePc = "returned" <=> feSent[1] = "completed"
    /\ fePc = "threw" <=> feSent[1] = "error"
    /\ feThrown = feSent[2]

\* C36: ForEach leaves only after the source delivered a terminal event,
\* normally after completed and with the delivered error after error, and
\* once a terminal event was delivered it leaves in the end, whether the
\* source emitted inside Subscribe or from another thread.
C36_ForEachReturns ==
    /\ [](fePc \in {"returned", "threw"} => FELeftRight)
    /\ (feSent # <<>>) ~> (fePc \in {"returned", "threw"})

\* C36 witness: a source on its own thread delivered a value and an error
\* while the caller slept, and ForEach left with that error.
C36_Witness ==
    /\ feMode = "async" /\ fePc = "threw" /\ feThrown = 2
    /\ feValues = <<1>> /\ feSent = <<"error", 2>>

\* C37: once Sink::Dispose has run, no event passed to the sink has reached
\* the downstream observer afterwards, and the upstream-cancel disposable has
\* been disposed exactly once, whatever was called before and however often
\* Dispose is called.
C37_SinkDisposed ==
    snDisposeRan => (snLate = <<>> /\ snObserver = "noop" /\ snCancelDisposes = 1)

\* A terminal event was forwarded, then Dispose ran twice, then a value was
\* passed to the sink.
C37_Witness ==
    /\ snInput = <<EventOf("OnCompleted", 1), <<"Dispose", 0>>, <<"Dispose", 0>>,
                   EventOf("OnNext", 2)>>
    /\ snOut = <<EventOf("OnCompleted", 1)>>
    /\ snCancelDisposes = 1

\* The empty (nullptr) slots of a table.
Tombstones(tbl) == {i \in 1..Len(tbl) : tbl[i] = 0}

\* C38: in a BehaviorSubject or AsyncSubject in state Forwarding, slotCount is
\* the number of nullptr slots of the observer table, every observer
\* subscribed in Forwarding whose handle is not disposed is in the table, and
\* a Subscribe that adds an observer keeps the length of the table when the
\* table has a nullptr slot and grows it by one when it has none.
C38_SlotsCounted ==
    /\ []((kind \in {"Behavior", "Async"} /\ state = "Forwarding") =>
            /\ slotCount = Cardinality(Tombstones(observers))
            /\ attached \subseteq Members(observers))
    /\ [][IF /\ kind \in {"Behavior", "Async"}
             /\ state = "Forwarding"
             /\ attached' # attached
             /\ attached \subseteq attached'
          THEN Len(observers') =
                   Len(observers) + (IF Tombstones(observers) = {} THEN 1 ELSE 0)
          ELSE TRUE]_vars

\* O1 subscribed and its handle was disposed; O2 subscribed afterwards and
\* took the slot O1 left.
C38_Witness ==
    /\ kind = "Async"
    /\ state = "Forwarding"
    /\ disposedD[1]
    /\ ret[2] = "d"
    /\ observers = <<2>>
    /\ slotCount = 0

\* C39: an observer that subscribed to a BehaviorSubject in state Completed,
\* completed being the first terminal event of the subject, has received the
\* last value published before the completion and then completed, whatever
\* was published after the completion.
C39_LateOnNextDropped ==
    (kind = "Behavior" /\ th["t1"].pc = "idle") =>
        \A o \in Obs :
            (/\ ret[o] # "none"
             /\ stateAtSub[o] = "Completed"
             /\ termAtSub[o] = << <<"completed", 0>> >>)
                => received[o] = << <<"next", latestAtSub[o][1]>>, <<"completed", 0>> >>

\* C40: the handler invocations of an observer built by CreateObserver are
\* values followed by at most one terminal event, and no handler is invoked
\* after a call of OnCompleted or OnError, whether or not that call had a
\* handler to invoke.
C40_CreatedObserverGrammar ==
    /\ \A i \in 1..Len(crCalls) : crCalls[i][1] # "next" => i = Len(crCalls)
    /\ crLate = <<>>

====
